---- MODULE Spec2Model ----
(***************************************************************************)
(* Model of HomeTheaterCoordinator                                         *)
(* (custom_components/home_theater/coordinator.py).                        *)
(*                                                                         *)
(* Volumes are integers in units of 0.0001 (the code rounds every tracked  *)
(* volume to 4 decimals); raw inputs of sync_volume / volume_set_level are *)
(* integers in units of 0.00001 so that round(x, 4) does real work.        *)
(*                                                                         *)
(* A coroutine is modelled at the granularity of the asyncio event loop:   *)
(* one action runs the code from one suspension point (await of a service *)
(* call or of asyncio.sleep) to the next one.  The operators below take    *)
(* and return a context record c: the coordinator's fields, the set of     *)
(* timers the event loop holds, and the frame f of the running coroutine.  *)
(***************************************************************************)
EXTENDS Integers, Sequences, FiniteSets, TLC

\* ---------------------------------------------------------------- const.py
VOLUME_MIN == 0
VOLUME_MAX == 10000
DEFAULT_VOLUME == 3000
DEFAULT_VOLUME_MAX_STEPS == 50
SCREEN_UP == "up"
SCREEN_DOWN == "down"
SCREEN_OPENING == "opening"
SCREEN_CLOSING == "closing"

\* Python's None, and a key that is missing from a dict
None == "None"

\* ------------------------------------------------------------------ bounds
\* coroutines that may exist at once
NumTasks == 2
\* timers the event loop can hold at once
MaxTimers == 2
\* register_listener calls counted in one run of the integration
MaxRegistrations == 5

Tasks == 1..NumTasks
TimerIds == 1..MaxTimers

\* ----------------------------------------------------------------- helpers
Min(a, b) == IF a < b THEN a ELSE b
Max(a, b) == IF a > b THEN a ELSE b
Abs(a) == IF a < 0 THEN 0 - a ELSE a

\* floor(n / d) for d > 0 and any integer n
FloorDiv(n, d) == IF n >= 0 THEN n \div d ELSE 0 - ((0 - n + d - 1) \div d)

\* Python round(): n/d rounded to the nearest integer, ties to even
RoundHalfEven(n, d) ==
    LET q == FloorDiv(n, d)
        r == n - q * d
    IN  IF 2 * r > d THEN q + 1
        ELSE IF 2 * r < d THEN q
        ELSE IF q % 2 = 0 THEN q ELSE q + 1

\* round(x, 4) of a raw input given in units of 0.00001
Round4(raw) == RoundHalfEven(raw, 10)

\* ----------------------------------------------------------- configuration
\* entry.data handed to the coordinator; the scene list and source map
Scenes ==
    << [name |-> "Movie Night",
        has_amp_power |-> TRUE, amp_power |-> TRUE,
        source |-> "BluRay",
        has_volume |-> TRUE, volume |-> 40000,
        screen |-> SCREEN_DOWN,
        lights |-> << [domain |-> "light", entity_id |-> "light.lamp",
                       state |-> "on", brightness |-> 50],
                      [domain |-> "fan", entity_id |-> "fan.ceiling",
                       state |-> "on", brightness |-> -1],
                      [domain |-> "switch", entity_id |-> "switch.popcorn",
                       state |-> "off", brightness |-> -1] >>],
       [name |-> "All Off",
        has_amp_power |-> TRUE, amp_power |-> FALSE,
        source |-> None,
        has_volume |-> FALSE, volume |-> 0,
        screen |-> SCREEN_UP,
        lights |-> << >>],
       [name |-> "Music",
        has_amp_power |-> FALSE, amp_power |-> FALSE,
        source |-> "VCR",
        has_volume |-> TRUE, volume |-> 35004,
        screen |-> None,
        lights |-> << >>] >>

SceneNames == {Scenes[i].name : i \in 1..Len(Scenes)}
\* config[CONF_SOURCES]: source name -> command name, for the names that a
\* configuration may hold (config.sources says which it holds)
SourceCmd == [BluRay |-> "hdmi_1", TV |-> "hdmi_2"]
Sources == DOMAIN SourceCmd
\* names a caller may pass: configured and not configured
SourceArgs == Sources \cup {"VCR"}
SceneArgs == SceneNames \cup {"Nope"}


\* ------------------------------------------------------------------- state
VARIABLES
    config,               \* self._config: volume_max_steps, screen_stop_cmd,
                          \* sources (the keys of the source map)
    loaded,               \* async_load has run (async_setup_entry)
    amp_power,            \* self.amp_power
    volume,               \* self.volume, units of 0.0001
    muted,                \* self.muted
    source,               \* self.source
    screen_position,      \* self.screen_position
    active_scene,         \* self.active_scene
    screen_timer,         \* self._screen_timer: id of a timer, or 0 for None
    in_scene_activation,  \* self._in_scene_activation
    timers,               \* timers the event loop holds: [id, kind]
    task,                 \* frames of the coroutines, one per task slot
    stored,               \* what self._store holds on disk: << >> or << data >>
    pending_saves,        \* delayed writes self._store has scheduled
    listeners,            \* self._listeners
    heard,                \* listeners called by the latest _notify, in order
    announced,            \* what those listeners found the state to be:
                          \* << >> before the first _notify, else << data >>
    registered_at         \* when each listener was registered: the number of
                          \* its register_listener call, 0 when it is not
                          \* registered (kept to state the broadcast order)

vars == << config, loaded, amp_power, volume, muted, source, screen_position,
           active_scene, screen_timer, in_scene_activation, timers, task,
           stored, pending_saves, listeners, heard, announced,
           registered_at >>

\* The coordinator's fields as a call finds them (kept in the frame of the
\* call, to state what the call did)
NoFields ==
    [amp_power |-> FALSE, volume |-> 0, muted |-> FALSE, source |-> None,
     screen_position |-> SCREEN_UP, active_scene |-> None,
     screen_timer |-> 0, in_scene_activation |-> FALSE, timers |-> {}]

Fields ==
    [amp_power |-> amp_power, volume |-> volume, muted |-> muted,
     source |-> source, screen_position |-> screen_position,
     active_scene |-> active_scene, screen_timer |-> screen_timer,
     in_scene_activation |-> in_scene_activation, timers |-> timers]

\* Frame of a coroutine that is not running.  op, arg and raw are the call;
\* pc, site, scene, src, target, steps, up and light are the coroutine's
\* position and locals;
\* the rest records what the call has done so far: its result, the service
\* calls it made (sent, ups, downs), the field it wrote last, the
\* notifications since that write (notes) and since the call (notified), and
\* the fields it found (before).
IdleFrame ==
    [op |-> "none", pc |-> "idle", site |-> "none", arg |-> None, raw |-> 0,
     scene |-> 0, src |-> None, target |-> 0, steps |-> 0, up |-> FALSE, light |-> 0,
     result |-> "none", sent |-> << >>, ups |-> 0, downs |-> 0,
     last_write |-> "none", notes |-> 0, notified |-> 0, cleared |-> FALSE,
     before |-> NoFields]

\* The context an atomic run of coroutine t works on
Ctx(t) ==
    [config |-> config,
     amp_power |-> amp_power, volume |-> volume, muted |-> muted,
     source |-> source, screen_position |-> screen_position,
     active_scene |-> active_scene, screen_timer |-> screen_timer,
     in_scene_activation |-> in_scene_activation, timers |-> timers,
     pending_saves |-> pending_saves, listeners |-> listeners,
     heard |-> heard, announced |-> announced,
     f |-> task[t]]

\* The context of a callback the event loop runs outside every coroutine
CallbackCtx == [Ctx(1) EXCEPT !.f = IdleFrame]

\* Assignment to one of the coordinator's state fields.  The frame notes
\* which field the coroutine wrote last, the notifications since then, and
\* whether this coroutine ever turned active_scene from a name into None.
Write(c, field, value) ==
    [c EXCEPT ![field] = value,
              !.f.last_write = field,
              !.f.notes = 0,
              !.f.cleared = @ \/ (field = "active_scene" /\ value = None
                                   /\ c.active_scene # None)]

\* _state_to_dict: the snapshot of the six persisted fields
state_to_dict(c) ==
    [amp_power |-> c.amp_power, volume |-> c.volume, muted |-> c.muted,
     source |-> c.source, screen_position |-> c.screen_position,
     active_scene |-> c.active_scene]

\* stands for the data of a delayed write that are not produced yet
NoData == state_to_dict(NoFields)

\* A delayed write of the store holds either the function that will produce
\* the data when the write happens, or data produced already
DelayedSave(producer, data) == [producer |-> producer, data |-> data]

\* (variant: the snapshot is taken when the first save of a window is
\* scheduled, and later calls leave that delayed write alone)
schedule_save_first_snapshot(c) ==
    IF c.pending_saves # << >> THEN c
    ELSE [c EXCEPT !.pending_saves =
                       << DelayedSave(FALSE, state_to_dict(c)) >>]

\* _schedule_save: async_delay_save(self._state_to_dict, SAVE_DELAY) hands
\* the store the function, and replaces a delayed write scheduled before
schedule_save(c) ==
    [c EXCEPT !.pending_saves =
                  << DelayedSave(TRUE, NoData) >>]

\* for listener in list(self._listeners): listener()
call_listeners(c) ==
    [c EXCEPT !.heard = c.listeners, !.announced = << state_to_dict(c) >>]

\* _notify: schedule the debounced save and call the listeners
notify(c) ==
    LET d == call_listeners(schedule_save(c))
    IN  [d EXCEPT !.f.notes = @ + 1, !.f.notified = @ + 1]

\* _send_command: the coroutine suspends in the blocking service call
send_command(c, device_id, command_name) ==
    [c EXCEPT !.f.pc = "send",
              !.f.sent = Append(@, [dev |-> device_id, cmd |-> command_name,
                                    arg |-> -1]),
              !.f.ups = IF command_name = "volume_up" THEN @ + 1 ELSE @,
              !.f.downs = IF command_name = "volume_down" THEN @ + 1 ELSE @]

\* a coroutine function returns to its caller without having suspended
Returned(c) == [c EXCEPT !.f.pc = "ret"]

\* the awaited coroutine function returned (else the caller stays suspended
\* inside it)
HasReturned(c) == c.f.pc = "ret"

\* (variant: the handle is dropped but the timer is not cancelled)
cancel_screen_timer_forgets(c) == [c EXCEPT !.screen_timer = 0]

\* _cancel_screen_timer: cancelling removes the timer from the event loop
cancel_screen_timer(c) ==
    IF c.screen_timer # 0
    THEN [c EXCEPT !.timers = {tm \in @ : tm.id # c.screen_timer},
                   !.screen_timer = 0]
    ELSE c

\* async_call_later: a new timer whose callback is arrival at `kind`
FreeTimerId(c) ==
    CHOOSE i \in TimerIds :
        /\ i \notin {tm.id : tm \in c.timers}
        /\ \A j \in TimerIds : j < i => j \in {tm.id : tm \in c.timers}
async_call_later(c, kind) ==
    LET id == FreeTimerId(c)
    IN  [c EXCEPT !.timers = @ \cup {[id |-> id, kind |-> kind]},
                  !.screen_timer = id]


\* the await site a suspended coroutine resumes at
At(c, site) == [c EXCEPT !.f.site = site]

\* config.get(CONF_VOLUME_MAX_STEPS, DEFAULT_VOLUME_MAX_STEPS); 0 = no key
MaxSteps(c) ==
    IF c.config.volume_max_steps = 0 THEN DEFAULT_VOLUME_MAX_STEPS
    ELSE c.config.volume_max_steps

\* ------------------------------------------------------ amplifier commands
\* Each coroutine function is two operators: the code up to its await of
\* _send_command, and (suffix _sent) the code after the call has returned.
\* (variant: the command is sent whatever the tracked power state is)
async_amp_power_on_always(c) ==
    At(send_command(c, "amp", "power_on"), "async_amp_power_on")

async_amp_power_on(c) ==
    IF c.amp_power THEN Returned(c)
    ELSE At(send_command(c, "amp", "power_on"), "async_amp_power_on")

amp_power_on_sent(c) == Returned(notify(Write(c, "amp_power", TRUE)))

async_amp_power_off(c) ==
    IF ~c.amp_power THEN Returned(c)
    ELSE At(send_command(c, "amp", "power_off"), "async_amp_power_off")

amp_power_off_sent(c) ==
    Returned(notify(Write(Write(c, "amp_power", FALSE), "active_scene", None)))

\* (variant: no command is sent when the tracked volume is at the maximum)
async_volume_up_below_max(c) ==
    IF c.volume >= VOLUME_MAX THEN Returned(c)
    ELSE At(send_command(c, "amp", "volume_up"), "async_volume_up")

async_volume_up(c) ==
    At(send_command(c, "amp", "volume_up"), "async_volume_up")

\* min(VOLUME_MAX, round(self.volume + step, 4))
VolumeAfterUp(v, max_steps) ==
    Min(VOLUME_MAX, RoundHalfEven(v * max_steps + 10000, max_steps))

volume_up_sent(c) ==
    LET c1 == Write(c, "volume", VolumeAfterUp(c.volume, MaxSteps(c)))
        c2 == IF ~c1.in_scene_activation
              THEN Write(c1, "active_scene", None) ELSE c1
    IN  Returned(notify(c2))

async_volume_down(c) ==
    At(send_command(c, "amp", "volume_down"), "async_volume_down")

\* (variant: truncation in place of round)
VolumeAfterDownTruncates(v, max_steps) ==
    Max(VOLUME_MIN, FloorDiv(v * max_steps - 10000, max_steps))

\* max(VOLUME_MIN, round(self.volume - step, 4))
VolumeAfterDown(v, max_steps) ==
    Max(VOLUME_MIN, RoundHalfEven(v * max_steps - 10000, max_steps))

volume_down_sent(c) ==
    LET c1 == Write(c, "volume", VolumeAfterDown(c.volume, MaxSteps(c)))
        c2 == IF ~c1.in_scene_activation
              THEN Write(c1, "active_scene", None) ELSE c1
    IN  Returned(notify(c2))

\* (variant: the state is advanced before the dispatch)
async_mute_toggle_optimistic(c) ==
    At(send_command(Write(c, "muted", ~c.muted), "amp", "mute"),
       "async_mute_toggle")

async_mute_toggle(c) ==
    At(send_command(c, "amp", "mute"), "async_mute_toggle")

\* (variant: the toggle clears the scene label as a volume step does)
mute_toggle_sent_clears_scene(c) ==
    LET c1 == Write(c, "muted", ~c.muted)
        c2 == IF ~c1.in_scene_activation
              THEN Write(c1, "active_scene", None) ELSE c1
    IN  Returned(notify(c2))

mute_toggle_sent(c) == Returned(notify(Write(c, "muted", ~c.muted)))

\* -------------------------------------------------------- source selection
\* source_list: the keys of self._config.get(CONF_SOURCES, {})
source_list(c) == c.config.sources

async_select_source(c, src) ==
    IF src \notin source_list(c) THEN Returned(c)
    ELSE At([send_command(c, "hdmi", SourceCmd[src]) EXCEPT !.f.src = src],
            "async_select_source")

\* (variant: the source changes but the scene label stays)
select_source_sent_keeps_scene(c) ==
    Returned(notify(Write(c, "source", c.f.src)))

select_source_sent(c) ==
    LET c1 == Write(c, "source", c.f.src)
        c2 == IF ~c1.in_scene_activation
              THEN Write(c1, "active_scene", None) ELSE c1
    IN  Returned(notify(c2))

\* -------------------------------------------------------- projector screen
\* (variant: a screen that is already on its way down is left alone)
async_screen_down_unless_closing(c) ==
    IF c.screen_position \in {SCREEN_DOWN, SCREEN_CLOSING} THEN Returned(c)
    ELSE At(send_command(cancel_screen_timer(c), "screen", "screen_down"),
            "async_screen_down")

async_screen_down(c) ==
    IF c.screen_position = SCREEN_DOWN THEN Returned(c)
    ELSE At(send_command(cancel_screen_timer(c), "screen", "screen_down"),
            "async_screen_down")

\* (variant: the screen is taken to be down as soon as the command is sent)
screen_down_sent_arrives(c) ==
    Returned(async_call_later(
        notify(Write(c, "screen_position", SCREEN_DOWN)), SCREEN_DOWN))

screen_down_sent(c) ==
    Returned(async_call_later(
        notify(Write(c, "screen_position", SCREEN_CLOSING)), SCREEN_DOWN))

\* (variant: the pending timer is not cancelled before the move)
async_screen_up_no_cancel(c) ==
    IF c.screen_position = SCREEN_UP THEN Returned(c)
    ELSE At(send_command(c, "screen", "screen_up"), "async_screen_up")

async_screen_up(c) ==
    IF c.screen_position = SCREEN_UP THEN Returned(c)
    ELSE At(send_command(cancel_screen_timer(c), "screen", "screen_up"),
            "async_screen_up")

\* (variant: the move clears the scene label as a volume step does)
screen_up_sent_clears_scene(c) ==
    LET c1 == Write(c, "screen_position", SCREEN_OPENING)
        c2 == IF ~c1.in_scene_activation
              THEN Write(c1, "active_scene", None) ELSE c1
    IN  Returned(async_call_later(notify(c2), SCREEN_UP))

screen_up_sent(c) ==
    Returned(async_call_later(
        notify(Write(c, "screen_position", SCREEN_OPENING)), SCREEN_UP))

\* (variant: the callback clears the handle and notifies, the position stays)
screen_arrived_down_stays(c) == notify([c EXCEPT !.screen_timer = 0])

\* callbacks of the two arrival timers
screen_arrived_down(c) ==
    notify(Write([c EXCEPT !.screen_timer = 0],
                 "screen_position", SCREEN_DOWN))

\* (variant: the callback notifies before it sets the position)
screen_arrived_up_notifies_first(c) ==
    Write(notify([c EXCEPT !.screen_timer = 0]),
          "screen_position", SCREEN_UP)

screen_arrived_up(c) ==
    notify(Write([c EXCEPT !.screen_timer = 0],
                 "screen_position", SCREEN_UP))

\* bool(self._config.get(CONF_SCREEN_STOP_CMD)): None and "" are falsy
has_screen_stop(c) == c.config.screen_stop_cmd \notin {None, ""}

\* (variant: the stop command is sent but the timer is left pending)
async_screen_stop_no_cancel(c) ==
    IF ~has_screen_stop(c) THEN Returned(c)
    ELSE At(send_command(c, "screen", c.config.screen_stop_cmd),
            "async_screen_stop")

\* (variant: the timer is cancelled before the stop command is looked up)
async_screen_stop_cancels_first(c) ==
    IF ~has_screen_stop(c) THEN Returned(cancel_screen_timer(c))
    ELSE At(send_command(cancel_screen_timer(c), "screen",
                         c.config.screen_stop_cmd),
            "async_screen_stop")

async_screen_stop(c) ==
    IF ~has_screen_stop(c) THEN Returned(c)
    ELSE At(send_command(cancel_screen_timer(c), "screen",
                         c.config.screen_stop_cmd),
            "async_screen_stop")

screen_stop_sent(c) == Returned(notify(c))


\* ------------------------------------------------------------- volume sync
\* (variant: rounding without the clamp)
RoundNoClamp(raw) == Round4(raw)

\* max(VOLUME_MIN, min(VOLUME_MAX, round(volume_level, 4)))
ClampRound4(raw) == Max(VOLUME_MIN, Min(VOLUME_MAX, Round4(raw)))

\* (variant: the volume is corrected without a notification)
sync_volume_silent(c, raw) == Write(c, "volume", ClampRound4(raw))

sync_volume(c, raw) == notify(Write(c, "volume", ClampRound4(raw)))

\* -------------------------------------------------------- volume set level
\* int(abs(diff) / step) is evaluated in IEEE-754 doubles.  The quotient of
\* the doubles differs from the exact quotient by far less than 0.0001 *
\* max_steps, so truncation gives the exact floor unless the distance is a
\* whole number k of steps; then the double quotient is k or just below k.
\* FloatTruncated lists the triples <<max_steps, volume, target>>, among the
\* volumes reachable here with max_steps 10, 12 and 50 and the targets 0,
\* 0.3, 0.35, 0.4, 0.5 and 1, for which CPython yields k - 1 (none for 12).
FloatTruncated ==
        {<< 10, v, 0 >> : v \in {3000, 6000, 7000}}
    \cup {<< 10, v, 3000 >> : v \in {0, 1000, 2000, 6000, 7000, 10000}}
    \cup {<< 10, v, 3500 >> : v \in {500, 1500, 2500, 9500}}
    \cup {<< 10, v, 4000 >> : v \in {5000, 6000, 7000, 10000}}
    \cup {<< 10, v, 5000 >> : v \in {2000, 4000, 6000, 7000}}
    \cup {<< 10, v, 10000 >> : v \in {3000, 4000, 8000, 9000}}
    \cup {<< 50, v, 0 >> : v \in {5800, 9400}}
    \cup {<< 50, v, 3000 >> : v \in {200, 800, 1000, 1400, 1600, 2000, 2200, 2600, 2800, 5800,
            7000, 9400, 9600, 9800}}
    \cup {<< 50, v, 3500 >> : v \in {100, 300, 700, 1300, 1500, 1700, 1900, 2100, 2300, 2500,
            2700, 3100, 3300, 5700, 6900}}
    \cup {<< 50, v, 4000 >> : v \in {4200, 4400, 4800, 5000, 5800, 6000, 6200, 7000, 7200, 7400,
            8200, 8400, 8600, 9400, 9600, 9800}}
    \cup {<< 50, v, 5000 >> : v \in {1600, 2800, 3400, 4000, 4600, 5800, 6000, 7000, 7200, 8200,
            8400, 9400, 9600}}
    \cup {<< 50, v, 10000 >> : v \in {600, 3200, 3400, 5400, 5600, 6600, 6800, 7800, 8000, 9000,
            9200}}

StepsNeeded(v, target, max_steps) ==
    LET exact == (Abs(target - v) * max_steps) \div 10000
    IN  IF << max_steps, v, target >> \in FloatTruncated
        THEN exact - 1 ELSE exact

\* (variant: no snap after the loop)
volume_set_level_no_snap(c) == Returned(c)

\* lines 327-330: snap to the exact target
volume_set_level_snap(c) ==
    Returned(IF c.volume # c.f.target
             THEN notify(Write(c, "volume", c.f.target)) ELSE c)

\* lines 320-324: one iteration of the loop, or the code after it
volume_set_level_loop(c) ==
    IF c.f.steps > 0
    THEN IF c.f.up THEN async_volume_up(c) ELSE async_volume_down(c)
    ELSE volume_set_level_snap(c)

\* lines 314-318
async_volume_set_level(c, raw) ==
    LET target == ClampRound4(raw)
        diff == target - c.volume
    IN  volume_set_level_loop(
            [c EXCEPT !.f.target = target,
                      !.f.up = diff > 0,
                      !.f.steps = StepsNeeded(c.volume, target, MaxSteps(c))])

\* line 325, asyncio.sleep(VOLUME_STEP_DELAY)
SleepStep(c) == [c EXCEPT !.f.pc = "sleep_step"]

\* -------------------------------------------------------- scene activation
SceneIndex(name) == CHOOSE i \in 1..Len(Scenes) : Scenes[i].name = name
SceneOf(c) == Scenes[c.f.scene]

\* (variant: the label is set without the final notification)
execute_scene_update_silent(c) ==
    [Returned(Write(c, "active_scene", SceneOf(c).name))
        EXCEPT !.in_scene_activation = FALSE]

\* lines 407-409, then the finally clause of async_activate_scene (351)
execute_scene_update(c) ==
    [Returned(notify(Write(c, "active_scene", SceneOf(c).name)))
        EXCEPT !.in_scene_activation = FALSE]

\* lines 383-388: the next entry at or after i that is not skipped
RECURSIVE NextLight(_, _), NextLightOfAnyDomain(_, _)
\* (variant: entries of every domain are called)
NextLightOfAnyDomain(lights, i) ==
    IF i > Len(lights) THEN i
    ELSE IF lights[i].entity_id = None
         THEN NextLightOfAnyDomain(lights, i + 1)
         ELSE i

NextLight(lights, i) ==
    IF i > Len(lights) THEN i
    ELSE IF lights[i].entity_id = None
            \/ lights[i].domain \notin {"light", "switch"}
         THEN NextLight(lights, i + 1)
         ELSE i

\* int(light_cfg["brightness"] * 255 / 100)
Brightness(b) == (b * 255) \div 100

\* lines 389-405: the service call for entry i
LightCall(c, i) ==
    LET l == SceneOf(c).lights[i]
        call == IF l.state = "on"
                THEN [dev |-> l.entity_id, cmd |-> "turn_on",
                      arg |-> IF l.domain = "light" /\ l.brightness >= 0
                              THEN Brightness(l.brightness) ELSE -1]
                ELSE [dev |-> l.entity_id, cmd |-> "turn_off", arg |-> -1]
    IN  [c EXCEPT !.f.pc = "light", !.f.light = i,
                  !.f.sent = Append(@, call)]

\* step 5 from entry i on, then step 6
execute_scene_lights(c, i) ==
    LET j == NextLight(SceneOf(c).lights, i)
    IN  IF j > Len(SceneOf(c).lights) THEN execute_scene_update(c)
        ELSE LightCall(c, j)

execute_scene_lights_all(c) == execute_scene_lights(c, 1)

\* step 4
execute_scene_screen(c) ==
    LET d == IF SceneOf(c).screen = SCREEN_DOWN THEN async_screen_down(c)
             ELSE IF SceneOf(c).screen = SCREEN_UP THEN async_screen_up(c)
             ELSE Returned(c)
    IN  IF HasReturned(d) THEN execute_scene_lights_all(d) ELSE d

\* step 3
execute_scene_volume(c) ==
    LET d == IF SceneOf(c).has_volume
             THEN async_volume_set_level(c, SceneOf(c).volume)
             ELSE Returned(c)
    IN  IF HasReturned(d) THEN execute_scene_screen(d) ELSE d

\* step 2
execute_scene_source(c) ==
    LET d == IF SceneOf(c).source \notin {None, ""}
             THEN async_select_source(c, SceneOf(c).source)
             ELSE Returned(c)
    IN  IF HasReturned(d) THEN execute_scene_volume(d) ELSE d

\* line 361, asyncio.sleep(AMP_POWER_ON_DELAY)
SleepAmp(c) == [c EXCEPT !.f.pc = "sleep_amp"]

\* step 1
execute_scene(c) ==
    IF SceneOf(c).has_amp_power
    THEN IF SceneOf(c).amp_power
         THEN LET d == async_amp_power_on(c)
              IN  IF HasReturned(d) THEN SleepAmp(d) ELSE d
         ELSE LET d == async_amp_power_off(c)
              IN  IF HasReturned(d) THEN execute_scene_source(d) ELSE d
    ELSE execute_scene_source(c)

\* (variant: the guard is set before the scene is looked up)
async_activate_scene_guard_first(c, scene_name) ==
    IF scene_name \notin SceneNames
    THEN Returned([c EXCEPT !.in_scene_activation = TRUE])
    ELSE execute_scene([c EXCEPT !.in_scene_activation = TRUE,
                                 !.f.scene = SceneIndex(scene_name)])

async_activate_scene(c, scene_name) ==
    IF scene_name \notin SceneNames THEN Returned(c)
    ELSE execute_scene([c EXCEPT !.in_scene_activation = TRUE,
                                 !.f.scene = SceneIndex(scene_name)])


\* ----------------------------------------------------- resuming a coroutine
\* the code after the await of _send_command, by the function that awaits
SendReturned(c) ==
    CASE c.f.site = "async_amp_power_on" -> amp_power_on_sent(c)
      [] c.f.site = "async_amp_power_off" -> amp_power_off_sent(c)
      [] c.f.site = "async_volume_up" -> volume_up_sent(c)
      [] c.f.site = "async_volume_down" -> volume_down_sent(c)
      [] c.f.site = "async_mute_toggle" -> mute_toggle_sent(c)
      [] c.f.site = "async_select_source" -> select_source_sent(c)
      [] c.f.site = "async_screen_down" -> screen_down_sent(c)
      [] c.f.site = "async_screen_up" -> screen_up_sent(c)
      [] c.f.site = "async_screen_stop" -> screen_stop_sent(c)

\* the code of the caller after the function awaited at f.site returned:
\* _execute_scene and async_volume_set_level call the functions above
Caller(c) ==
    IF c.f.op = "async_activate_scene"
    THEN CASE c.f.site = "async_amp_power_on" -> SleepAmp(c)
           [] c.f.site = "async_amp_power_off" -> execute_scene_source(c)
           [] c.f.site = "async_select_source" -> execute_scene_volume(c)
           [] c.f.site \in {"async_volume_up", "async_volume_down"} ->
                SleepStep(c)
           [] c.f.site \in {"async_screen_down", "async_screen_up"} ->
                execute_scene_lights_all(c)
    ELSE IF c.f.op = "async_volume_set_level" THEN SleepStep(c)
    ELSE c

\* after asyncio.sleep(VOLUME_STEP_DELAY): next iteration of the loop
StepSlept(c) ==
    LET d == volume_set_level_loop([c EXCEPT !.f.steps = @ - 1])
    IN  IF c.f.op = "async_activate_scene" /\ HasReturned(d)
        THEN execute_scene_screen(d) ELSE d

\* the outermost coroutine function returned: the task is done
Finish(c) ==
    IF c.f.pc = "ret" THEN [c EXCEPT !.f.pc = "done", !.f.result = "ok"]
    ELSE c

\* (variant: no finally clause, the guard stays as it is)
RaiseWithoutFinally(c) ==
    [c EXCEPT !.f.pc = "done", !.f.result = "error"]

\* (variant: the failure puts the six fields back as they were at the call)
RaiseRollingBack(c) ==
    [c EXCEPT !.f.pc = "done", !.f.result = "error",
              !.amp_power = c.f.before.amp_power,
              !.volume = c.f.before.volume,
              !.muted = c.f.before.muted,
              !.source = c.f.before.source,
              !.screen_position = c.f.before.screen_position,
              !.active_scene = c.f.before.active_scene,
              !.in_scene_activation =
                  IF c.f.op = "async_activate_scene" THEN FALSE ELSE @]

\* an awaited service call raised: the exception unwinds every caller;
\* the finally clause of async_activate_scene releases the guard
Raise(c) ==
    [c EXCEPT !.f.pc = "done", !.f.result = "error",
              !.in_scene_activation =
                  IF c.f.op = "async_activate_scene" THEN FALSE ELSE @]

\* ----------------------------------------------------------------- actions
Commit(t, d) ==
    /\ amp_power' = d.amp_power
    /\ volume' = d.volume
    /\ muted' = d.muted
    /\ source' = d.source
    /\ screen_position' = d.screen_position
    /\ active_scene' = d.active_scene
    /\ screen_timer' = d.screen_timer
    /\ in_scene_activation' = d.in_scene_activation
    /\ timers' = d.timers
    /\ task' = [task EXCEPT ![t] = d.f]
    /\ pending_saves' = d.pending_saves
    /\ listeners' = d.listeners
    /\ heard' = d.heard
    /\ announced' = d.announced
    /\ UNCHANGED << config, loaded, stored, registered_at >>

CommitCallback(d) ==
    /\ amp_power' = d.amp_power
    /\ volume' = d.volume
    /\ muted' = d.muted
    /\ source' = d.source
    /\ screen_position' = d.screen_position
    /\ active_scene' = d.active_scene
    /\ screen_timer' = d.screen_timer
    /\ in_scene_activation' = d.in_scene_activation
    /\ timers' = d.timers
    /\ pending_saves' = d.pending_saves
    /\ listeners' = d.listeners
    /\ heard' = d.heard
    /\ announced' = d.announced
    /\ UNCHANGED << config, loaded, task, stored, registered_at >>

\* Calls are made one at a time: a call starts when no coroutine exists
CanCall(t) ==
    /\ loaded
    /\ t = 1
    /\ \A u \in Tasks : task[u].pc = "idle"

\* the coordinator as its constructor leaves it
Constructed(c) ==
    [c EXCEPT !.amp_power = FALSE, !.volume = DEFAULT_VOLUME,
              !.muted = FALSE, !.source = None,
              !.screen_position = SCREEN_UP, !.active_scene = None,
              !.screen_timer = 0, !.in_scene_activation = FALSE,
              !.listeners = << >>]

\* the context of a fresh coroutine for operation op
Begin(t, op) ==
    [Ctx(t) EXCEPT !.f = [IdleFrame EXCEPT !.op = op, !.pc = "run",
                                           !.before = Fields]]

\* persisted snapshots async_load may find at the first setup
Snapshots ==
    { [amp_power |-> TRUE, volume |-> 5000, muted |-> FALSE,
       source |-> "BluRay", screen_position |-> SCREEN_CLOSING,
       active_scene |-> "Movie Night"],
      [amp_power |-> FALSE, volume |-> 0, muted |-> TRUE,
       source |-> None, screen_position |-> SCREEN_DOWN,
       active_scene |-> None] }

\* the entities of the platforms, which register one listener each when
\* they are added (PLATFORMS order)
Entities == << "media_player", "cover", "switch" >>

ListenerIds == {Entities[i] : i \in DOMAIN Entities}

\* (variant: the new listener is put first)
register_listener_first(c, listener) ==
    [c EXCEPT !.listeners = << listener >> \o @]

\* register_listener: self._listeners.append(listener)
register_listener(c, listener) ==
    [c EXCEPT !.listeners = Append(@, listener)]

\* list.remove(x): the first item equal to x is taken out
ListRemove(list, x) ==
    LET i == CHOOSE k \in 1..Len(list) :
                 list[k] = x /\ \A j \in 1..(k - 1) : list[j] # x
    IN  SubSeq(list, 1, i - 1) \o SubSeq(list, i + 1, Len(list))

\* the remove() that register_listener returned
remove(c, listener) ==
    [c EXCEPT !.listeners = ListRemove(@, listener)]

\* async_forward_entry_setups: the entities of the platforms are added and
\* register in PLATFORMS order
AllRegistered(c) ==
    register_listener(register_listener(register_listener(
        [c EXCEPT !.listeners = << >>], Entities[1]), Entities[2]), Entities[3])

EntitiesRegisteredAt ==
    [l \in ListenerIds |-> CHOOSE i \in DOMAIN Entities : Entities[i] = l]

\* data.get(key, default)
Get(data, key, default) ==
    IF key \in DOMAIN data THEN data[key] ELSE default

\* (variant: the position is loaded as it was stored)
async_load_keeps_position(c, data) ==
    [c EXCEPT !.amp_power = Get(data, "amp_power", FALSE),
              !.volume = Get(data, "volume", DEFAULT_VOLUME),
              !.muted = Get(data, "muted", FALSE),
              !.source = Get(data, "source", None),
              !.active_scene = Get(data, "active_scene", None),
              !.screen_position = Get(data, "screen_position", SCREEN_UP)]

\* async_load, the body of "if data:"
async_load(c, data) ==
    LET pos == Get(data, "screen_position", SCREEN_UP)
    IN  [c EXCEPT !.amp_power = Get(data, "amp_power", FALSE),
                  !.volume = Get(data, "volume", DEFAULT_VOLUME),
                  !.muted = Get(data, "muted", FALSE),
                  !.source = Get(data, "source", None),
                  !.active_scene = Get(data, "active_scene", None),
                  !.screen_position =
                      IF pos \in {SCREEN_OPENING, SCREEN_CLOSING}
                      THEN SCREEN_UP ELSE pos]

\* async_setup_entry: async_load when the store holds data, then the
\* platforms are set up and their entities register their listeners
Load(data) ==
    /\ ~loaded
    /\ stored = << data >>
    /\ loaded' = TRUE
    /\ LET d == async_load(CallbackCtx, data)
       IN  /\ amp_power' = d.amp_power
           /\ volume' = d.volume
           /\ muted' = d.muted
           /\ source' = d.source
           /\ active_scene' = d.active_scene
           /\ screen_position' = d.screen_position
    /\ listeners' = AllRegistered(CallbackCtx).listeners
    /\ registered_at' = EntitiesRegisteredAt
    /\ UNCHANGED << config, screen_timer, in_scene_activation, timers, task,
                    stored, pending_saves, heard, announced >>

\* async_setup_entry when the store holds nothing: the constructor's
\* defaults stay
LoadNothing ==
    /\ ~loaded
    /\ stored = << >>
    /\ loaded' = TRUE
    /\ listeners' = AllRegistered(CallbackCtx).listeners
    /\ registered_at' = EntitiesRegisteredAt
    /\ UNCHANGED << config, amp_power, volume, muted, source, screen_position,
                    active_scene, screen_timer, in_scene_activation, timers,
                    task, stored, pending_saves, heard, announced >>

AmpPowerOn(t) ==
    CanCall(t) /\ Commit(t, Finish(async_amp_power_on(Begin(t, "async_amp_power_on"))))

AmpPowerOff(t) ==
    CanCall(t) /\ Commit(t, Finish(async_amp_power_off(Begin(t, "async_amp_power_off"))))

VolumeUp(t) ==
    CanCall(t) /\ Commit(t, Finish(async_volume_up(Begin(t, "async_volume_up"))))

VolumeDown(t) ==
    CanCall(t) /\ Commit(t, Finish(async_volume_down(Begin(t, "async_volume_down"))))

MuteToggle(t) ==
    CanCall(t) /\ Commit(t, Finish(async_mute_toggle(Begin(t, "async_mute_toggle"))))

SelectSource(t, src) ==
    CanCall(t) /\ Commit(t, Finish(async_select_source(
                      [Begin(t, "async_select_source") EXCEPT !.f.arg = src], src)))

ScreenDown(t) ==
    CanCall(t) /\ Commit(t, Finish(async_screen_down(Begin(t, "async_screen_down"))))

ScreenUp(t) ==
    CanCall(t) /\ Commit(t, Finish(async_screen_up(Begin(t, "async_screen_up"))))

ScreenStop(t) ==
    CanCall(t) /\ Commit(t, Finish(async_screen_stop(Begin(t, "async_screen_stop"))))

SyncVolume(t, raw) ==
    CanCall(t) /\ Commit(t, Finish(Returned(sync_volume(
                      [Begin(t, "sync_volume") EXCEPT !.f.raw = raw], raw))))

VolumeSetLevel(t, raw) ==
    CanCall(t) /\ Commit(t, Finish(async_volume_set_level(
                      [Begin(t, "async_volume_set_level") EXCEPT !.f.raw = raw],
                      raw)))

ActivateScene(t, name) ==
    CanCall(t) /\ Commit(t, Finish(async_activate_scene(
                      [Begin(t, "async_activate_scene") EXCEPT !.f.arg = name], name)))

\* A call that may start while other coroutines are suspended: the event
\* loop runs it as soon as it is made
CanCallDuringOthers(t) ==
    /\ loaded
    /\ task[t].pc = "idle"

ActivateSceneDuringOthers(t, name) ==
    CanCallDuringOthers(t) /\ Commit(t, Finish(async_activate_scene(
                      [Begin(t, "async_activate_scene") EXCEPT !.f.arg = name], name)))

MuteToggleDuringOthers(t) ==
    /\ CanCallDuringOthers(t)
    /\ Commit(t, Finish(async_mute_toggle(Begin(t, "async_mute_toggle"))))

ScreenDownDuringOthers(t) ==
    CanCallDuringOthers(t)
    /\ Commit(t, Finish(async_screen_down(Begin(t, "async_screen_down"))))

ScreenUpDuringOthers(t) ==
    CanCallDuringOthers(t)
    /\ Commit(t, Finish(async_screen_up(Begin(t, "async_screen_up"))))

\* (variant: the cleanup leaves the pending timer with the event loop)
CleanupKeepsTimer(t) ==
    CanCall(t) /\ Commit(t, Finish(Returned(Begin(t, "async_cleanup"))))

\* async_cleanup, on unload of the integration
Cleanup(t) ==
    CanCall(t) /\ Commit(t, Finish(Returned(cancel_screen_timer(Begin(t, "async_cleanup")))))

\* the awaited _send_command returns (a screen move then starts a timer:
\* the model holds at most MaxTimers timers)
SendCommandReturns(t) ==
    /\ task[t].pc = "send"
    /\ task[t].site \in {"async_screen_down", "async_screen_up"}
       => Cardinality(timers) < MaxTimers
    /\ Commit(t, Finish(Caller(SendReturned(Ctx(t)))))

\* the awaited service call raises
ServiceCallRaises(t) ==
    /\ task[t].pc \in {"send", "light"}
    /\ Commit(t, Raise(Ctx(t)))

\* asyncio.sleep(VOLUME_STEP_DELAY) is over
StepDelayOver(t) ==
    /\ task[t].pc = "sleep_step"
    /\ Commit(t, Finish(StepSlept(Ctx(t))))

\* asyncio.sleep(AMP_POWER_ON_DELAY) is over
AmpDelayOver(t) ==
    /\ task[t].pc = "sleep_amp"
    /\ Commit(t, Finish(execute_scene_source(Ctx(t))))

\* the awaited light / switch service call returns
LightCallReturns(t) ==
    /\ task[t].pc = "light"
    /\ Commit(t, Finish(execute_scene_lights(Ctx(t), task[t].light + 1)))

\* the caller of a finished coroutine takes its result; the frame is gone
Return(t) ==
    /\ task[t].pc = "done"
    /\ task' = [task EXCEPT ![t] = IdleFrame]
    /\ UNCHANGED << config, loaded, amp_power, volume, muted, source,
                    screen_position, active_scene, screen_timer,
                    in_scene_activation, timers, stored, pending_saves,
                    listeners, heard, announced, registered_at >>

\* the store's delayed write is due: it writes what the function it was
\* given returns now, or the data it was given
DelayedWrite ==
    /\ pending_saves # << >>
    /\ stored' = << IF Head(pending_saves).producer
                    THEN state_to_dict(CallbackCtx)
                    ELSE Head(pending_saves).data >>
    /\ pending_saves' = Tail(pending_saves)
    /\ UNCHANGED << config, loaded, amp_power, volume, muted, source,
                    screen_position, active_scene, screen_timer,
                    in_scene_activation, timers, task, listeners, heard, announced,
                    registered_at >>

\* async_unload_entry, once the store has written: the entities are removed
\* and unregister, async_cleanup cancels the timer; the next
\* async_setup_entry constructs a new coordinator
Restart ==
    /\ loaded
    /\ \A t \in Tasks : task[t].pc = "idle"
    /\ pending_saves = << >>
    /\ loaded' = FALSE
    /\ LET d == Constructed(cancel_screen_timer(CallbackCtx))
       IN  /\ amp_power' = d.amp_power
           /\ volume' = d.volume
           /\ muted' = d.muted
           /\ source' = d.source
           /\ screen_position' = d.screen_position
           /\ active_scene' = d.active_scene
           /\ screen_timer' = d.screen_timer
           /\ in_scene_activation' = d.in_scene_activation
           /\ timers' = d.timers
           /\ listeners' = d.listeners
    /\ registered_at' = [l \in ListenerIds |-> 0]
    /\ announced' = << >>
    /\ UNCHANGED << config, task, stored, pending_saves, heard >>

\* the number of the latest register_listener call whose listener is still
\* registered
LastRegistration ==
    CHOOSE n \in 0..MaxRegistrations :
        /\ \A k \in ListenerIds : registered_at[k] <= n
        /\ \E k \in ListenerIds : registered_at[k] = n

\* an entity is added to hass and registers its listener
Register(l) ==
    /\ loaded
    /\ registered_at[l] = 0
    /\ \A k \in ListenerIds : registered_at[k] < MaxRegistrations
    /\ listeners' = register_listener(CallbackCtx, l).listeners
    /\ registered_at' = [registered_at EXCEPT ![l] = LastRegistration + 1]
    /\ UNCHANGED << config, loaded, amp_power, volume, muted, source,
                    screen_position, active_scene, screen_timer,
                    in_scene_activation, timers, task, stored, pending_saves,
                    heard, announced >>

\* an entity is removed and calls the remove() it was given
Unregister(l) ==
    /\ loaded
    /\ registered_at[l] > 0
    /\ listeners' = remove(CallbackCtx, l).listeners
    /\ registered_at' = [registered_at EXCEPT ![l] = 0]
    /\ UNCHANGED << config, loaded, amp_power, volume, muted, source,
                    screen_position, active_scene, screen_timer,
                    in_scene_activation, timers, task, stored, pending_saves,
                    heard, announced >>

\* _async_update_listener: update_config replaces the configuration
UpdateConfig(cfg) ==
    /\ loaded
    /\ config' = cfg
    /\ UNCHANGED << loaded, amp_power, volume, muted, source,
                    screen_position, active_scene, screen_timer,
                    in_scene_activation, timers, task, stored, pending_saves,
                    listeners, heard, announced, registered_at >>

\* the event loop runs the callback of a timer that is due
ScreenArrivedDown ==
    \E tm \in timers :
        /\ tm.kind = SCREEN_DOWN
        /\ CommitCallback(screen_arrived_down(
               [CallbackCtx EXCEPT !.timers = @ \ {tm}]))

ScreenArrivedUp ==
    \E tm \in timers :
        /\ tm.kind = SCREEN_UP
        /\ CommitCallback(screen_arrived_up(
               [CallbackCtx EXCEPT !.timers = @ \ {tm}]))

\* ---------------------------------------------------------- specifications
\* raw volume arguments, units of 0.00001: below 0, inside a step, above 1
RawVolumes == {-20000, 35004, 120000}

\* the data the store holds
Stored == { stored[i] : i \in DOMAIN stored }

Configs ==
    [volume_max_steps : {10}, screen_stop_cmd : {None, "screen_stop"},
     sources : {{"BluRay"}}]

Init ==
    /\ config \in Configs
    /\ loaded = FALSE
    /\ amp_power = FALSE
    /\ volume = DEFAULT_VOLUME
    /\ muted = FALSE
    /\ source = None
    /\ screen_position = SCREEN_UP
    /\ active_scene = None
    /\ screen_timer = 0
    /\ in_scene_activation = FALSE
    /\ timers = {}
    /\ task = [t \in Tasks |-> IdleFrame]
    /\ stored \in {<< >>} \cup {<< data >> : data \in Snapshots}
    /\ pending_saves = << >>
    /\ listeners = << >>
    /\ heard = << >>
    /\ announced = << >>
    /\ registered_at = [l \in ListenerIds |-> 0]

Next ==
    \/ \E data \in Stored : Load(data)
    \/ LoadNothing
    \/ \E t \in Tasks :
        \/ AmpPowerOn(t)
        \/ AmpPowerOff(t)
        \/ VolumeUp(t)
        \/ VolumeDown(t)
        \/ MuteToggle(t)
        \/ \E src \in SourceArgs : SelectSource(t, src)
        \/ ScreenDown(t)
        \/ ScreenUp(t)
        \/ ScreenStop(t)
        \/ \E raw \in RawVolumes : SyncVolume(t, raw)
        \/ \E raw \in RawVolumes : VolumeSetLevel(t, raw)
        \/ \E name \in SceneArgs : ActivateScene(t, name)
        \/ Cleanup(t)
        \/ SendCommandReturns(t)
        \/ ServiceCallRaises(t)
        \/ StepDelayOver(t)
        \/ AmpDelayOver(t)
        \/ LightCallReturns(t)
        \/ Return(t)
    \/ ScreenArrivedDown
    \/ ScreenArrivedUp

Spec == Init /\ [][Next]_vars

TypeOK ==
    /\ amp_power \in BOOLEAN
    /\ muted \in BOOLEAN
    /\ volume \in Int
    /\ source \in Sources \cup {None}
    /\ screen_position \in {SCREEN_UP, SCREEN_DOWN, SCREEN_OPENING, SCREEN_CLOSING}
    /\ active_scene \in SceneNames \cup {None}
    /\ screen_timer \in TimerIds \cup {0}


\* The volume operations alone, over more step counts and targets; 0 stands
\* for a configuration without the volume_max_steps key
VolumeMaxSteps == {0, 10, 12}
VolumeRaws == {-20000, 30000, 35004, 50000, 120000}
VolumeStarts == {0, DEFAULT_VOLUME, 5000}

InitVolume ==
    /\ config \in [volume_max_steps : VolumeMaxSteps, screen_stop_cmd : {None},
                 sources : {{"BluRay"}}]
    /\ loaded = TRUE
    /\ amp_power = TRUE
    /\ volume \in VolumeStarts
    /\ muted = FALSE
    /\ source = None
    /\ screen_position = SCREEN_UP
    /\ active_scene = None
    /\ screen_timer = 0
    /\ in_scene_activation = FALSE
    /\ timers = {}
    /\ task = [t \in Tasks |-> IdleFrame]
    /\ stored = << >>
    /\ pending_saves = << >>
    /\ listeners = Entities
    /\ heard = << >>
    /\ announced = << >>
    /\ registered_at = EntitiesRegisteredAt

NextVolume ==
    \E t \in Tasks :
        \/ VolumeUp(t)
        \/ VolumeDown(t)
        \/ \E raw \in VolumeRaws : SyncVolume(t, raw)
        \/ \E raw \in VolumeRaws : VolumeSetLevel(t, raw)
        \/ SendCommandReturns(t)
        \/ StepDelayOver(t)
        \/ Return(t)

SpecVolume == InitVolume /\ [][NextVolume]_vars


\* The screen operations alone, over every form of the stop command: the key
\* missing (None), empty (the default of the options form) and configured
StopCmds == {None, "", "screen_stop"}

InitScreen ==
    /\ config \in [volume_max_steps : {10}, screen_stop_cmd : StopCmds,
                 sources : {{"BluRay"}}]
    /\ loaded = TRUE
    /\ amp_power = FALSE
    /\ volume = DEFAULT_VOLUME
    /\ muted = FALSE
    /\ source = None
    /\ screen_position = SCREEN_UP
    /\ active_scene = None
    /\ screen_timer = 0
    /\ in_scene_activation = FALSE
    /\ timers = {}
    /\ task = [t \in Tasks |-> IdleFrame]
    /\ stored = << >>
    /\ pending_saves = << >>
    /\ listeners = Entities
    /\ heard = << >>
    /\ announced = << >>
    /\ registered_at = EntitiesRegisteredAt

NextScreen ==
    \/ \E t \in Tasks :
        \/ ScreenDown(t)
        \/ ScreenUp(t)
        \/ ScreenStop(t)
        \/ SendCommandReturns(t)
        \/ ServiceCallRaises(t)
        \/ Return(t)
    \/ ScreenArrivedDown
    \/ ScreenArrivedUp

SpecScreen == InitScreen /\ [][NextScreen]_vars

\* Scene activations that overlap: a second call is made while the first
\* is suspended
InitOverlap ==
    /\ config = [volume_max_steps |-> 10, screen_stop_cmd |-> "",
                sources |-> {"BluRay"}]
    /\ loaded = TRUE
    /\ amp_power = FALSE
    /\ volume = DEFAULT_VOLUME
    /\ muted = FALSE
    /\ source = None
    /\ screen_position = SCREEN_UP
    /\ active_scene = None
    /\ screen_timer = 0
    /\ in_scene_activation = FALSE
    /\ timers = {}
    /\ task = [t \in Tasks |-> IdleFrame]
    /\ stored = << >>
    /\ pending_saves = << >>
    /\ listeners = Entities
    /\ heard = << >>
    /\ announced = << >>
    /\ registered_at = EntitiesRegisteredAt

OverlapScenes == {"Movie Night", "Music"}

\* the two callers whose calls overlap
TwoCallers == {1, 2}

NextScenesOverlap ==
    \/ \E t \in TwoCallers :
        \/ \E name \in OverlapScenes : ActivateSceneDuringOthers(t, name)
        \/ SendCommandReturns(t)
        \/ StepDelayOver(t)
        \/ AmpDelayOver(t)
        \/ LightCallReturns(t)
        \/ Return(t)
    \/ ScreenArrivedDown

SpecScenesOverlap == InitOverlap /\ [][NextScenesOverlap]_vars

\* Mute toggles made between and during activations of a scene: one caller
\* activates, the other toggles
NextMuteOverlap ==
    \/ \E name \in OverlapScenes : ActivateSceneDuringOthers(1, name)
    \/ MuteToggleDuringOthers(2)
    \/ \E t \in TwoCallers :
        \/ SendCommandReturns(t)
        \/ StepDelayOver(t)
        \/ AmpDelayOver(t)
        \/ LightCallReturns(t)
        \/ Return(t)
    \/ ScreenArrivedDown

SpecMuteOverlap == InitOverlap /\ [][NextMuteOverlap]_vars

\* Screen moves that overlap: one caller lowers the screen, the other raises
\* it, and either may call while the other's dispatch is suspended
NextScreenOverlap ==
    \/ ScreenDownDuringOthers(1)
    \/ ScreenUpDuringOthers(2)
    \/ \E t \in TwoCallers :
        \/ SendCommandReturns(t)
        \/ Return(t)
    \/ ScreenArrivedDown
    \/ ScreenArrivedUp

SpecScreenOverlap == InitOverlap /\ [][NextScreenOverlap]_vars

\* The screen operations with cleanup and with entities that are removed,
\* under an event loop that runs the callback of every timer that stays due
NextScreenLive ==
    \/ NextScreen
    \/ \E t \in Tasks : Cleanup(t)
    \/ \E l \in ListenerIds : Unregister(l)

SpecScreenLive ==
    /\ InitScreen
    /\ [][NextScreenLive]_vars
    /\ WF_vars(ScreenArrivedDown)
    /\ WF_vars(ScreenArrivedUp)


\* Saving and loading: operations that change each persisted field, the
\* store's delayed write, and the entry being set up again.  The first
\* setup finds the store empty.
InitSave ==
    /\ config = [volume_max_steps |-> 10, screen_stop_cmd |-> "",
                sources |-> {"BluRay"}]
    /\ loaded = FALSE
    /\ amp_power = FALSE
    /\ volume = DEFAULT_VOLUME
    /\ muted = FALSE
    /\ source = None
    /\ screen_position = SCREEN_UP
    /\ active_scene = None
    /\ screen_timer = 0
    /\ in_scene_activation = FALSE
    /\ timers = {}
    /\ task = [t \in Tasks |-> IdleFrame]
    /\ stored = << >>
    /\ pending_saves = << >>
    /\ listeners = << >>
    /\ heard = << >>
    /\ announced = << >>
    /\ registered_at = [l \in ListenerIds |-> 0]

NextSave ==
    \/ \E data \in Stored : Load(data)
    \/ LoadNothing
    \/ \E t \in Tasks :
        \/ AmpPowerOn(t)
        \/ MuteToggle(t)
        \/ SelectSource(t, "BluRay")
        \/ ScreenDown(t)
        \/ SyncVolume(t, 35004)
        \/ ActivateScene(t, "Music")
        \/ SendCommandReturns(t)
        \/ Return(t)
    \/ ScreenArrivedDown
    \/ DelayedWrite
    \/ Restart

SpecSave == InitSave /\ [][NextSave]_vars


\* Listeners: entities come and go in any order while operations notify
InitListeners ==
    /\ config = [volume_max_steps |-> 10, screen_stop_cmd |-> "",
                sources |-> {"BluRay"}]
    /\ loaded = TRUE
    /\ amp_power = FALSE
    /\ volume = DEFAULT_VOLUME
    /\ muted = FALSE
    /\ source = None
    /\ screen_position = SCREEN_UP
    /\ active_scene = None
    /\ screen_timer = 0
    /\ in_scene_activation = FALSE
    /\ timers = {}
    /\ task = [t \in Tasks |-> IdleFrame]
    /\ stored = << >>
    /\ pending_saves = << >>
    /\ listeners = << >>
    /\ heard = << >>
    /\ announced = << >>
    /\ registered_at = [l \in ListenerIds |-> 0]

NextListeners ==
    \/ \E l \in ListenerIds : Register(l)
    \/ \E l \in ListenerIds : Unregister(l)
    \/ \E t \in Tasks :
        \/ MuteToggle(t)
        \/ ScreenDown(t)
        \/ SyncVolume(t, 35004)
        \/ SendCommandReturns(t)
        \/ Return(t)
    \/ ScreenArrivedDown

SpecListeners == InitListeners /\ [][NextListeners]_vars


\* The source under changes of the configuration: the options flow may
\* replace the source map at any time
SourceMaps == {{"BluRay"}, {"TV"}, {"BluRay", "TV"}}

NewConfigs ==
    [volume_max_steps : {10}, screen_stop_cmd : {""}, sources : SourceMaps]

InitConfig ==
    /\ config = [volume_max_steps |-> 10, screen_stop_cmd |-> "",
                sources |-> {"BluRay"}]
    /\ loaded = FALSE
    /\ amp_power = FALSE
    /\ volume = DEFAULT_VOLUME
    /\ muted = FALSE
    /\ source = None
    /\ screen_position = SCREEN_UP
    /\ active_scene = None
    /\ screen_timer = 0
    /\ in_scene_activation = FALSE
    /\ timers = {}
    /\ task = [t \in Tasks |-> IdleFrame]
    /\ stored \in {<< >>} \cup {<< data >> : data \in Snapshots}
    /\ pending_saves = << >>
    /\ listeners = << >>
    /\ heard = << >>
    /\ announced = << >>
    /\ registered_at = [l \in ListenerIds |-> 0]

NextConfig ==
    \/ \E data \in Stored : Load(data)
    \/ LoadNothing
    \/ \E cfg \in NewConfigs : UpdateConfig(cfg)
    \/ \E t \in Tasks :
        \/ \E src \in SourceArgs : SelectSource(t, src)
        \/ ActivateScene(t, "Music")
        \/ SendCommandReturns(t)
        \/ Return(t)

SpecConfig == InitConfig /\ [][NextConfig]_vars


\* ------------------------------------------------------------------ claims
\* calls that have returned normally / of operation op
Done(t) == task[t].pc = "done" /\ task[t].result = "ok"
DoneOp(t, op) == Done(t) /\ task[t].op = op

\* C1: during activateScene of a configured scene, no step of that
\* activation turns active_scene from a scene name into absent.
C1_NoClearDuringActivation ==
    \A t \in Tasks :
        task[t].op = "async_activate_scene" => ~task[t].cleared

\* C2 (as claimed): after any powerOff, volumeUp, volumeDown or selectSource
\* that is made outside scene execution and returns normally, active_scene
\* is absent, whatever the state before and whatever the source name.
C2_ClearedAfterAnyCall ==
    \A t \in Tasks :
        /\ Done(t)
        /\ task[t].op \in {"async_amp_power_off", "async_volume_up",
                           "async_volume_down", "async_select_source"}
        => active_scene = None

\* C2 (amended): after a powerOff that found the amplifier on, a volumeUp, a
\* volumeDown or a selectSource of a configured source, made outside scene
\* execution and returned normally, active_scene is absent; a powerOff that
\* found the amplifier off and a selectSource of an unconfigured name leave
\* active_scene as it was.
C2_ClearedAfterEffectiveCall ==
    \A t \in Tasks :
        /\ ( \/ DoneOp(t, "async_amp_power_off") /\ task[t].before.amp_power
             \/ DoneOp(t, "async_volume_up")
             \/ DoneOp(t, "async_volume_down")
             \/ DoneOp(t, "async_select_source") /\ task[t].arg \in config.sources )
           => active_scene = None
        /\ ( \/ DoneOp(t, "async_amp_power_off") /\ ~task[t].before.amp_power
             \/ DoneOp(t, "async_select_source") /\ task[t].arg \notin config.sources )
           => active_scene = task[t].before.active_scene

C2_Witness ==
    \E t \in Tasks :
        /\ DoneOp(t, "async_select_source")
        /\ task[t].arg \in config.sources
        /\ task[t].before.active_scene # None
        /\ active_scene = None

\* C3: when activateScene(name) of a configured scene returns normally,
\* active_scene = name, the guard is false, and the last field the
\* activation wrote is active_scene, followed by exactly one notification.
C3_SceneSetLast ==
    \A t \in Tasks :
        DoneOp(t, "async_activate_scene") /\ task[t].arg \in SceneNames
        => /\ active_scene = task[t].arg
           /\ ~in_scene_activation
           /\ task[t].last_write = "active_scene"
           /\ task[t].notes = 1

C3_Witness ==
    \E t \in Tasks :
        /\ DoneOp(t, "async_activate_scene")
        /\ task[t].arg = "Movie Night"
        /\ Len(task[t].sent) >= 5
        /\ active_scene = "Movie Night"

\* C4: every step taken outside scene execution that changes the tracked
\* volume or source, or turns amp_power from true to false, leaves
\* active_scene absent.
C4_IndependentChangeClears ==
    [][ ( /\ loaded
          /\ ~in_scene_activation /\ ~in_scene_activation'
          /\ \/ volume' # volume
             \/ source' # source
             \/ amp_power /\ ~amp_power' )
        => active_scene' = None ]_vars

\* C5: volume lies in [0, 1] in every reachable state, whatever the
\* arguments of the calls; a call ends in an error only after a service
\* call it made, never because of a bound.
C5_VolumeInRange ==
    /\ VOLUME_MIN <= volume /\ volume <= VOLUME_MAX
    /\ \A t \in Tasks : task[t].result = "error" => task[t].sent # << >>

C5_Witness ==
    \E t \in Tasks :
        /\ DoneOp(t, "async_volume_set_level")
        /\ task[t].raw > 10 * VOLUME_MAX
        /\ task[t].ups > 0
        /\ volume = VOLUME_MAX

\* r is n/d rounded to the nearest integer (no tie arises for the step
\* counts used here)
Nearest(r, n, d) == 2 * Abs(r * d - n) < d

C7_EndsAtTarget ==
    \A t \in Tasks :
        DoneOp(t, "async_volume_set_level") =>
            IF task[t].raw < 10 * VOLUME_MIN THEN volume = VOLUME_MIN
            ELSE IF task[t].raw > 10 * VOLUME_MAX THEN volume = VOLUME_MAX
            ELSE Nearest(volume, task[t].raw, 10)

C7_Witness ==
    \E t \in Tasks :
        /\ DoneOp(t, "async_volume_set_level")
        /\ task[t].raw = 35004
        /\ task[t].downs > 0
        /\ task[t].last_write = "volume"
        /\ task[t].notes = 1
        /\ volume = 3500

\* C8: setVolumeLevel(target) from volume c issues exactly
\* floor(|clamp(target) - c| * max_steps) step commands, all volumeUp when
\* the target is above c and all volumeDown when it is below, never more
\* than max_steps.
C8_StepCount ==
    \A t \in Tasks :
        DoneOp(t, "async_volume_set_level") =>
            LET m == MaxSteps(Ctx(t))
                c0 == task[t].before.volume
                n == (Abs(task[t].target - c0) * m) \div 10000
            IN  /\ task[t].ups = IF task[t].target > c0 THEN n ELSE 0
                /\ task[t].downs = IF task[t].target < c0 THEN n ELSE 0
                /\ n <= m

\* every timer the event loop holds belongs to the move in progress
TimersMatchMove ==
    \A tm \in timers :
        \/ tm.kind = SCREEN_DOWN /\ screen_position = SCREEN_CLOSING
        \/ tm.kind = SCREEN_UP /\ screen_position = SCREEN_OPENING

\* C9: once screenUp has superseded a screenDown, the arrival-down timer is
\* gone and never fires: the position goes closing -> opening -> up and
\* does not become down from opening (symmetric for screenDown after
\* screenUp).
C9_SupersededTimerNeverFires ==
    [][ /\ TimersMatchMove'
        /\ screen_position = SCREEN_OPENING => screen_position' # SCREEN_DOWN
        /\ screen_position = SCREEN_CLOSING => screen_position' # SCREEN_UP
      ]_vars

C9_Witness ==
    \E t \in Tasks :
        /\ DoneOp(t, "async_screen_up")
        /\ task[t].before.screen_position = SCREEN_CLOSING
        /\ task[t].before.timers # {}
        /\ screen_position = SCREEN_UP
        /\ timers = {}

\* C10: at most one arrival timer is live, and a live timer is the one the
\* timer handle holds.
C10_OneLiveTimer ==
    /\ Cardinality(timers) <= 1
    /\ \A tm \in timers : tm.id = screen_timer

C10_Witness ==
    \E t \in Tasks :
        /\ DoneOp(t, "async_screen_down")
        /\ task[t].before.screen_position = SCREEN_OPENING
        /\ task[t].before.timers # {}
        /\ Cardinality(timers) = 1

\* C11: with no stop command configured (the key missing, or empty),
\* screenStop returns at once: it leaves every state field, the timer handle
\* and the pending timer as they were, dispatches nothing and notifies
\* nobody; the pending timer stays with the event loop, and when it fires it
\* completes the move (position = the timer's destination, handle cleared).
C11_StopWithoutCommandIsNoOp ==
    [][ /\ \A t \in Tasks :
            /\ task[t].pc = "idle"
            /\ task'[t].op = "async_screen_stop"
            /\ config.screen_stop_cmd \in {None, ""}
            => /\ Fields' = Fields
               /\ task'[t].pc = "done"
               /\ task'[t].result = "ok"
               /\ task'[t].sent = << >>
               /\ task'[t].notified = 0
        /\ \A tm \in timers :
            /\ tm \notin timers'
            /\ task' = task
            /\ config.screen_stop_cmd \in {None, ""}
            => /\ screen_position' = tm.kind
               /\ screen_timer' = 0
      ]_vars

\* a screenStop without a stop command was made during a move down, and the
\* timer that was pending has since fired and completed the move
C11_Witness ==
    \E t \in Tasks :
        /\ DoneOp(t, "async_screen_stop")
        /\ config.screen_stop_cmd = ""
        /\ task[t].before.screen_position = SCREEN_CLOSING
        /\ task[t].before.timers # {}
        /\ task[t].sent = << >>
        /\ screen_position = SCREEN_DOWN
        /\ timers = {}

\* C12: for every reachable state s, loading the snapshot produced from s
\* into a newly constructed coordinator yields the amp_power, volume, muted,
\* source and active_scene of s, and the screen_position of s when that is
\* up or down and up when it is opening or closing; the loaded position is
\* never transitional.
C12_RoundTrip ==
    LET d == async_load(Constructed(CallbackCtx), state_to_dict(CallbackCtx))
    IN  /\ d.amp_power = amp_power
        /\ d.volume = volume
        /\ d.muted = muted
        /\ d.source = source
        /\ d.active_scene = active_scene
        /\ d.screen_position =
               IF screen_position \in {SCREEN_UP, SCREEN_DOWN}
               THEN screen_position ELSE SCREEN_UP
        /\ d.screen_position \in {SCREEN_UP, SCREEN_DOWN}

\* the entry was set up again from a snapshot written while the screen was
\* closing
C12_Witness ==
    /\ loaded
    /\ stored # << >>
    /\ stored[1].screen_position = SCREEN_CLOSING
    /\ stored[1].volume = 3500
    /\ stored[1].active_scene = "Music"
    /\ stored[1].muted
    /\ screen_position = SCREEN_UP
    /\ volume = 3500
    /\ active_scene = "Music"
    /\ muted
    /\ timers = {}

\* the step of _execute_scene an outbound call belongs to
Stage(call) ==
    IF call.cmd \in {"power_on", "power_off"} THEN 1
    ELSE IF call.dev = "hdmi" THEN 2
    ELSE IF call.cmd \in {"volume_up", "volume_down"} THEN 3
    ELSE IF call.dev = "screen" THEN 4
    ELSE 5

\* the calls of a log that belong to one step, in the order of the log
CallsOfStage(log, n) == SelectSeq(log, LAMBDA call : Stage(call) = n)

IsPrefix(p, q) == Len(p) <= Len(q) /\ \A i \in 1..Len(p) : p[i] = q[i]

\* what scene "Movie Night" asks of lights and switches, in list order
MovieNightLightCalls ==
    << [dev |-> "light.lamp", cmd |-> "turn_on", arg |-> 127],
       [dev |-> "switch.popcorn", cmd |-> "turn_off", arg |-> -1] >>

\* The outbound calls of an activation of "Movie Night" so far are in the
\* order amp power, source, volume steps, screen, lights in list order, and
\* its label is written after them all
MovieNightInOrder(f) ==
    /\ \A i, j \in 1..Len(f.sent) :
           i < j => Stage(f.sent[i]) <= Stage(f.sent[j])
    /\ CallsOfStage(f.sent, 1) \in
           {<< >>, << [dev |-> "amp", cmd |-> "power_on", arg |-> -1] >>}
    /\ CallsOfStage(f.sent, 2) \in
           {<< >>, << [dev |-> "hdmi", cmd |-> "hdmi_1", arg |-> -1] >>}
    /\ f.ups = 0 \/ f.downs = 0
    /\ CallsOfStage(f.sent, 4) \in
           {<< >>, << [dev |-> "screen", cmd |-> "screen_down", arg |-> -1] >>}
    /\ IsPrefix(CallsOfStage(f.sent, 5), MovieNightLightCalls)
    /\ f.pc # "done" => f.last_write # "active_scene"
    /\ f.pc = "done" /\ f.result = "ok"
       => /\ f.last_write = "active_scene"
          /\ Len(CallsOfStage(f.sent, 1)) = IF f.before.amp_power THEN 0 ELSE 1
          /\ Len(CallsOfStage(f.sent, 2)) = 1
          /\ CallsOfStage(f.sent, 5) = MovieNightLightCalls

\* an activation of "Movie Night" returns normally, having sent the screen
\* down
ReturnsHavingSentScreenDown(t) ==
    /\ task[t].pc # "done"
    /\ task'[t].pc = "done"
    /\ task'[t].result = "ok"
    /\ task'[t].op = "async_activate_scene"
    /\ task'[t].arg = "Movie Night"
    /\ CallsOfStage(task'[t].sent, 4) # << >>

\* C13 (as claimed): activateScene of a scene with amp_power, source,
\* volume, screen and lights emits its calls in the order amp power, source,
\* volume steps, screen, lights in list order, and sets active_scene after
\* them all; a screen sent down is closing when the activation returns.
C13_OrderAndClosingAtReturn ==
    [][ \A t \in Tasks :
            /\ task'[t].op = "async_activate_scene"
               /\ task'[t].arg = "Movie Night"
               => MovieNightInOrder(task'[t])
            /\ ReturnsHavingSentScreenDown(t)
               => /\ active_scene' = "Movie Night"
                  /\ screen_position' = SCREEN_CLOSING
      ]_vars

\* C13 (amended): the same order and the label after all calls; a screen
\* sent down is closing when the screen dispatch has returned, and becomes
\* down only by the arrival timer firing, which may happen while the
\* activation still awaits a light or switch call.
C13_OrderAndClosingAfterDispatch ==
    [][ /\ \A t \in Tasks :
            /\ task'[t].op = "async_activate_scene"
               /\ task'[t].arg = "Movie Night"
               => MovieNightInOrder(task'[t])
            /\ ReturnsHavingSentScreenDown(t)
               => /\ active_scene' = "Movie Night"
                  /\ screen_position' \in {SCREEN_CLOSING, SCREEN_DOWN}
            /\ task[t].op = "async_activate_scene"
               /\ task[t].pc = "send"
               /\ task[t].site = "async_screen_down"
               /\ task'[t].pc = "light"
               => /\ screen_position' = SCREEN_CLOSING
                  /\ \E tm \in timers' :
                         tm.kind = SCREEN_DOWN /\ tm.id = screen_timer'
        /\ loaded /\ screen_position # SCREEN_DOWN
           /\ screen_position' = SCREEN_DOWN
           => /\ task' = task
              /\ \E tm \in timers \ timers' : tm.kind = SCREEN_DOWN
      ]_vars

\* "Movie Night" was activated with the amplifier off and the screen up; it
\* has returned and the screen is still closing
C13_Witness ==
    \E t \in Tasks :
        /\ DoneOp(t, "async_activate_scene")
        /\ task[t].arg = "Movie Night"
        /\ ~task[t].before.amp_power
        /\ task[t].before.screen_position = SCREEN_UP
        /\ task[t].ups > 0
        /\ Len(task[t].sent) = 5 + task[t].ups
        /\ active_scene = "Movie Night"
        /\ screen_position = SCREEN_CLOSING
        /\ timers # {}

\* C14: activateScene with a name that is not a configured scene, and
\* selectSource with a name that is not in the configured source map,
\* return normally at once: no command is dispatched, no state field
\* changes (active_scene and the guard included), no listener is called
\* and no save is scheduled.
C14_UnknownNameIsNoOp ==
    [][ \A t \in Tasks :
            /\ task[t].pc = "idle"
            /\ \/ /\ task'[t].op = "async_activate_scene"
                  /\ task'[t].arg \notin SceneNames
               \/ /\ task'[t].op = "async_select_source"
                  /\ task'[t].arg \notin config.sources
            => /\ task'[t].pc = "done"
               /\ task'[t].result = "ok"
               /\ task'[t].sent = << >>
               /\ task'[t].notified = 0
               /\ Fields' = Fields
               /\ pending_saves' = pending_saves
               /\ heard' = heard
      ]_vars

\* an unknown scene was asked for while a scene was active and the screen
\* was moving
C14_Witness ==
    \E t \in Tasks :
        /\ DoneOp(t, "async_activate_scene")
        /\ task[t].arg = "Nope"
        /\ task[t].before.active_scene = "Movie Night"
        /\ task[t].before.timers # {}
        /\ active_scene = "Movie Night"
        /\ ~in_scene_activation

\* the operations that dispatch one command
DispatchingOps ==
    {"async_amp_power_on", "async_amp_power_off", "async_volume_up",
     "async_volume_down", "async_mute_toggle", "async_select_source",
     "async_screen_up", "async_screen_down", "async_screen_stop"}

\* the six persisted fields do not change in this step
SixFieldsUnchanged ==
    UNCHANGED << amp_power, volume, muted, source, screen_position,
                 active_scene >>

\* C15: when the dispatch of powerOn, powerOff, volumeUp, volumeDown,
\* muteToggle, selectSource, screenUp, screenDown or screenStop fails, the
\* operation has changed none of amp_power, volume, muted, source,
\* screen_position, active_scene, neither before the dispatch nor on the
\* failure, has notified nobody, and ends with the one dispatch it made.
C15_FailedDispatchChangesNothing ==
    [][ \A t \in Tasks :
            /\ task[t].pc = "idle"
               /\ task'[t].op \in DispatchingOps
               /\ task'[t].pc = "send"
               => /\ SixFieldsUnchanged
                  /\ task'[t].notified = 0
                  /\ pending_saves' = pending_saves
                  /\ heard' = heard
            /\ task[t].pc = "send"
               /\ task[t].op \in DispatchingOps
               /\ task'[t].result = "error"
               => /\ SixFieldsUnchanged
                  /\ task'[t].pc = "done"
                  /\ task'[t].notified = 0
                  /\ Len(task'[t].sent) = 1
                  /\ pending_saves' = pending_saves
                  /\ heard' = heard
      ]_vars

\* the dispatch of a volumeUp failed while a scene was active
C15_Witness ==
    \E t \in Tasks :
        /\ task[t].pc = "done"
        /\ task[t].result = "error"
        /\ task[t].op = "async_volume_up"
        /\ task[t].before.active_scene = "Movie Night"
        /\ active_scene = "Movie Night"
        /\ volume = task[t].before.volume
        /\ Len(task[t].sent) = 1

\* an activateScene call is in progress
ActivationInProgress ==
    \E t \in Tasks :
        /\ task[t].op = "async_activate_scene"
        /\ task[t].pc \notin {"idle", "done"}

\* C16: the guard is true only while an activateScene call is in progress;
\* once the call has ended, by a normal return or by a failed step, the
\* guard is false, and a volumeUp, volumeDown or selectSource of a known
\* source made afterwards finds it false and leaves active_scene absent.
C16_GuardReleased ==
    /\ in_scene_activation => ActivationInProgress
    /\ \A t \in Tasks :
        /\ task[t].op = "async_activate_scene" /\ task[t].pc = "done"
           => ~in_scene_activation
        /\ \/ DoneOp(t, "async_volume_up")
           \/ DoneOp(t, "async_volume_down")
           \/ DoneOp(t, "async_select_source")
                 /\ task[t].arg \in config.sources
           => /\ ~task[t].before.in_scene_activation
              /\ active_scene = None

\* a step of an activation failed after the amplifier and source commands
C16_Witness ==
    \E t \in Tasks :
        /\ task[t].op = "async_activate_scene"
        /\ task[t].pc = "done"
        /\ task[t].result = "error"
        /\ task[t].arg = "Movie Night"
        /\ Len(task[t].sent) >= 3
        /\ ~in_scene_activation

\* C17: the store holds at most one delayed write however many
\* notifications were issued since the last write; every change of the
\* persisted data is that one write, its content is the snapshot of the
\* state at the time of the write, and it leaves no write pending.
C17_OneWriteOfLatestState ==
    [][ /\ Len(pending_saves') <= 1
        /\ stored' # stored
           => /\ pending_saves # << >>
              /\ pending_saves' = << >>
              /\ stored' = << [amp_power |-> amp_power, volume |-> volume,
                                muted |-> muted, source |-> source,
                                screen_position |-> screen_position,
                                active_scene |-> active_scene] >>
              /\ SixFieldsUnchanged
      ]_vars

\* activateScene("Music") notified twice in one window (after the volume
\* and after the label); the one write that followed holds the label
C17_Witness ==
    \E t \in Tasks :
        /\ DoneOp(t, "async_activate_scene")
        /\ task[t].arg = "Music"
        /\ task[t].notified = 2
        /\ task[t].before.active_scene = None
        /\ pending_saves = << >>
        /\ stored # << >>
        /\ stored[1].active_scene = "Music"
        /\ stored[1].volume = 3500

\* a step in which _notify runs: in a coroutine, or in a timer callback
Notifies ==
    \/ \E t \in Tasks : task'[t].notified > task[t].notified
    \/ task' = task /\ timers' # timers

\* h calls each listener that r has as registered once and no other, in
\* the order of their registrations
IsBroadcast(h, r) ==
    /\ \A i \in 1..Len(h) : h[i] \in ListenerIds /\ r[h[i]] > 0
    /\ \A l \in ListenerIds :
           r[l] > 0 => Cardinality({i \in 1..Len(h) : h[i] = l}) = 1
    /\ \A i, j \in 1..Len(h) : i < j => r[h[i]] < r[h[j]]

\* C18: a notification calls every listener that is registered when it
\* starts exactly once, in the order of registration; it calls no listener
\* that was unregistered before (unless registered anew), and
\* unregistering one listener leaves the others to be called.  Listeners
\* are called by notifications only.
C18_BroadcastInRegistrationOrder ==
    [][ /\ Notifies => IsBroadcast(heard', registered_at)
        /\ heard' # heard => Notifies
      ]_vars

\* "cover" was registered second and was unregistered; "media_player" was
\* then unregistered and registered anew, so that the latest notification
\* called "switch" before "media_player" and did not call "cover"
C18_Witness ==
    /\ heard = << "switch", "media_player" >>
    /\ registered_at["cover"] = 0
    /\ registered_at["media_player"] > registered_at["switch"]
    /\ \E t \in Tasks : DoneOp(t, "async_mute_toggle")

\* C19: syncVolume(v) dispatches no command, sets volume to v rounded to 4
\* decimals and clamped to [0, 1], notifies once (the listeners are called
\* and a save is scheduled), and leaves amp_power, muted, source,
\* screen_position, the timer and the guard unchanged.
C19_SyncVolumeFrame ==
    [][ \A t \in Tasks :
            task[t].pc = "idle" /\ task'[t].op = "sync_volume"
            => /\ task'[t].pc = "done"
               /\ task'[t].result = "ok"
               /\ task'[t].sent = << >>
               /\ IF task'[t].raw < 10 * VOLUME_MIN THEN volume' = VOLUME_MIN
                  ELSE IF task'[t].raw > 10 * VOLUME_MAX
                       THEN volume' = VOLUME_MAX
                  ELSE Nearest(volume', task'[t].raw, 10)
               /\ task'[t].notified = 1
               /\ heard' = listeners
               /\ Len(pending_saves') = 1
               /\ UNCHANGED << amp_power, muted, source, screen_position,
                               screen_timer, timers, in_scene_activation >>
      ]_vars

\* syncVolume(1.2) was made while the screen was closing, the amplifier
\* muted and a source selected
C19_Witness ==
    \E t \in Tasks :
        /\ DoneOp(t, "sync_volume")
        /\ task[t].raw = 120000
        /\ task[t].before.volume # VOLUME_MAX
        /\ task[t].before.timers # {}
        /\ volume = VOLUME_MAX
        /\ timers = task[t].before.timers
        /\ screen_position = SCREEN_CLOSING
        /\ muted
        /\ source = "BluRay"

\* C20: in every reachable state, source is absent or a key of the source
\* map that is configured at that time, whatever sequence of selectSource,
\* activateScene, load and update_config led there.
C20_SourceIsConfigured ==
    source = None \/ source \in config.sources

Transitional == {SCREEN_OPENING, SCREEN_CLOSING}

\* C21: with a stop command configured, screenStop in any position sends
\* exactly one stop command, cancels the pending arrival timer, leaves
\* screen_position as it was and notifies once when the dispatch has
\* returned.  No timer is pending after it, a timer is started only by a
\* later screenDown or screenUp, and a position in travel becomes terminal
\* only by a timer firing.
C21_StopCancelsAndKeepsPosition ==
    [][ /\ \A t \in Tasks :
            /\ task[t].pc = "idle"
               /\ task'[t].op = "async_screen_stop"
               /\ config.screen_stop_cmd \notin {None, ""}
               => /\ task'[t].pc = "send"
                  /\ task'[t].sent = << [dev |-> "screen",
                                         cmd |-> config.screen_stop_cmd,
                                         arg |-> -1] >>
                  /\ task'[t].notified = 0
                  /\ timers' = {}
                  /\ screen_timer' = 0
                  /\ screen_position' = screen_position
            /\ task[t].pc = "send"
               /\ task[t].op = "async_screen_stop"
               /\ task'[t].result = "ok"
               => /\ task'[t].pc = "done"
                  /\ Len(task'[t].sent) = 1
                  /\ task'[t].notified = 1
                  /\ heard' = listeners
                  /\ timers' = {}
                  /\ screen_timer' = 0
                  /\ screen_position' = screen_position
        /\ timers' \ timers # {}
           => \E t \in Tasks :
                  /\ task[t].pc = "send"
                  /\ task[t].site \in {"async_screen_down", "async_screen_up"}
                  /\ task'[t].pc = "done"
        /\ screen_position \in Transitional
           /\ screen_position' \notin Transitional
           => \E tm \in timers \ timers' : screen_position' = tm.kind
      ]_vars

\* the screen was stopped while closing: the timer is gone and the position
\* is still closing
C21_Witness ==
    \E t \in Tasks :
        /\ DoneOp(t, "async_screen_stop")
        /\ config.screen_stop_cmd = "screen_stop"
        /\ task[t].before.screen_position = SCREEN_CLOSING
        /\ task[t].before.timers # {}
        /\ task[t].notified = 1
        /\ screen_position = SCREEN_CLOSING
        /\ timers = {}
        /\ screen_timer = 0

\* the coroutine that awaited the dispatch made at `site` resumes normally
ResumesAfter(site) ==
    \E t \in Tasks :
        /\ task[t].pc = "send"
        /\ task[t].site = site
        /\ task'[t].pc # "send"
        /\ task'[t].result # "error"

\* the timer whose callback is arrival at `kind` fires
Fires(kind) ==
    /\ task' = task
    /\ \E tm \in timers \ timers' : tm.kind = kind

\* C22: with operations that do not overlap, screen_position changes only
\* from a position other than down to closing by screenDown, from a position
\* other than up to opening by screenUp, from closing to down by the
\* arrival-down timer and from opening to up by the arrival-up timer.
C22_ScreenEdges ==
    [][ screen_position' # screen_position
        => \/ /\ screen_position # SCREEN_DOWN
              /\ screen_position' = SCREEN_CLOSING
              /\ ResumesAfter("async_screen_down")
           \/ /\ screen_position # SCREEN_UP
              /\ screen_position' = SCREEN_OPENING
              /\ ResumesAfter("async_screen_up")
           \/ /\ screen_position = SCREEN_CLOSING
              /\ screen_position' = SCREEN_DOWN
              /\ Fires(SCREEN_DOWN)
           \/ /\ screen_position = SCREEN_OPENING
              /\ screen_position' = SCREEN_UP
              /\ Fires(SCREEN_UP)
      ]_vars

\* screenDown was called while the screen was opening, and the screen has
\* since arrived down
C22_Witness ==
    \E t \in Tasks :
        /\ DoneOp(t, "async_screen_down")
        /\ task[t].before.screen_position = SCREEN_OPENING
        /\ screen_position = SCREEN_DOWN
        /\ timers = {}

\* a screenDown / screenUp whose dispatch succeeded has returned and the
\* screen is on its way
MovingDown ==
    /\ screen_position = SCREEN_CLOSING
    /\ \E t \in Tasks :
           DoneOp(t, "async_screen_down") /\ task[t].sent # << >>

MovingUp ==
    /\ screen_position = SCREEN_OPENING
    /\ \E t \in Tasks :
           DoneOp(t, "async_screen_up") /\ task[t].sent # << >>

\* a later operation has dispatched a screen command, or cleanup has run
FurtherScreenCall ==
    \E t \in Tasks : task[t].pc = "send" \/ task[t].op = "async_cleanup"

\* the move has completed at `position`: the handle is empty and the
\* listeners of that time were called
Arrived(position) ==
    /\ screen_position = position
    /\ screen_timer = 0
    /\ timers = {}
    /\ heard = listeners

\* C23: after a screenDown whose dispatch succeeded, unless a further
\* screen command is dispatched or cleanup runs, the arrival timer fires:
\* eventually screen_position is down, the timer handle is empty and the
\* listeners have been called; likewise screenUp leads to up.
C23_MoveCompletes ==
    /\ MovingDown ~> (Arrived(SCREEN_DOWN) \/ FurtherScreenCall)
    /\ MovingUp ~> (Arrived(SCREEN_UP) \/ FurtherScreenCall)

\* the screen has arrived down after "cover" was unregistered during the
\* move, so that the arrival called the listeners that were left
C23_Witness ==
    /\ \E t \in Tasks : DoneOp(t, "async_screen_down") /\ task[t].sent # << >>
    /\ Arrived(SCREEN_DOWN)
    /\ heard = << "media_player", "switch" >>

\* the screen is taken to be moving but no arrival timer is pending
MovingWithoutTimer(position, pending) ==
    position \in Transitional /\ pending = {}

\* C24: a transitional position with no pending timer never arises from a
\* screenUp or screenDown call, whether its dispatch succeeds or fails: when
\* such a call ends with the position opening or closing and no timer, the
\* call already found it so (a screenStop had left it so).
C24_MoveLeavesTimer ==
    [][ \A t \in Tasks :
            /\ task[t].pc # "done"
            /\ task'[t].pc = "done"
            /\ task'[t].op \in {"async_screen_up", "async_screen_down"}
            /\ MovingWithoutTimer(screen_position', timers')
            => MovingWithoutTimer(task'[t].before.screen_position,
                                  task'[t].before.timers)
      ]_vars

\* C25: the guard is true for the whole duration of every activateScene
\* execution of a configured scene, also when two activateScene invocations
\* overlap at their suspension points.
C25_GuardHeldThroughout ==
    \A t \in Tasks :
        /\ task[t].op = "async_activate_scene"
        /\ task[t].arg \in SceneNames
        /\ task[t].pc \notin {"idle", "done"}
        => in_scene_activation

\* C27: when a step of an activateScene execution fails, the failure changes
\* none of the six fields, so what the earlier steps changed is kept; the
\* call ends there with the error and makes no further service call, and
\* active_scene is what it was before the call or has been cleared by the
\* power-off step: it has not been set to the scene's name.
C27_FailedStepKeepsPartialState ==
    [][ \A t \in Tasks :
            /\ task[t].op = "async_activate_scene"
            /\ task[t].pc \in {"send", "light"}
            /\ task'[t].result = "error"
            => /\ SixFieldsUnchanged
               /\ task'[t].pc = "done"
               /\ task'[t].sent = task[t].sent
               /\ active_scene' \in {task[t].before.active_scene, None}
      ]_vars

\* the screen step of Movie Night failed: the amplifier, source and volume
\* steps have taken effect and stay, the scene's name is not set
C27_Witness ==
    \E t \in Tasks :
        /\ task[t].op = "async_activate_scene"
        /\ task[t].arg = "Movie Night"
        /\ task[t].pc = "done"
        /\ task[t].result = "error"
        /\ task[t].sent[Len(task[t].sent)].cmd = "screen_down"
        /\ ~task[t].before.amp_power /\ amp_power
        /\ source = "BluRay"
        /\ volume # task[t].before.volume
        /\ screen_position = task[t].before.screen_position
        /\ active_scene # "Movie Night"

\* the six persisted fields as they are now
StateNow == state_to_dict(Fields)

\* C28: a step of an operation or of a timer callback (not the setup of the
\* entry) that changes one of the six fields ends with a notification made
\* after the change: the listeners registered then are called and find the
\* new state, and a save that takes the state as it will be at the time of
\* the write is pending.  Hence, from the first notification on, the state
\* the listeners were told last is the current state and such a save is
\* pending, whether an operation is in progress or not.
C28_ChangesAreNotified ==
    /\ [][ /\ loaded /\ loaded'
           /\ StateNow' # StateNow
           => /\ announced' = << StateNow' >>
              /\ heard' = listeners'
              /\ pending_saves' = << DelayedSave(TRUE, NoData) >>
         ]_vars
    /\ [](announced # << >>
          => /\ announced = << StateNow >>
             /\ pending_saves = << DelayedSave(TRUE, NoData) >>)

\* a volume step of a setVolume call has changed the volume and the call
\* goes on; the listeners have been told the volume as it is now
C28_Witness ==
    \E t \in Tasks :
        /\ task[t].op = "async_volume_set_level"
        /\ task[t].pc = "sleep_step"
        /\ volume # task[t].before.volume
        /\ task[t].notified >= 2
        /\ announced = << StateNow >>

\* a step in which nothing but the frames of the coroutines changes
OnlyTaskChanges ==
    UNCHANGED << config, loaded, amp_power, volume, muted, source,
                 screen_position, active_scene, screen_timer,
                 in_scene_activation, timers, stored, pending_saves,
                 listeners, heard, announced, registered_at >>

\* the step is a call of op that returns at once: no command, no notification
ReturnsAtOnce(t, op) ==
    /\ task'[t].op = op
    /\ task'[t].pc = "done"
    /\ task'[t].result = "ok"
    /\ task'[t].sent = << >>
    /\ task'[t].notified = 0
    /\ OnlyTaskChanges

\* C29: powerOn when amp_power is true, and powerOff when it is false,
\* return at once: no command is dispatched, no field changes and nobody is
\* notified.  A powerOn that finds the power off dispatches the one
\* power-on command and, when it has returned, amp_power is true (likewise
\* powerOff), so that a second call in a row is such a call without effect.
C29_PowerIdempotent ==
    /\ [][ \A t \in Tasks :
               /\ task[t].pc = "idle" /\ task'[t].op = "async_amp_power_on"
                  => IF amp_power
                     THEN ReturnsAtOnce(t, "async_amp_power_on")
                     ELSE /\ task'[t].pc = "send"
                          /\ task'[t].sent = << [dev |-> "amp",
                                                 cmd |-> "power_on",
                                                 arg |-> -1] >>
               /\ task[t].pc = "idle" /\ task'[t].op = "async_amp_power_off"
                  => IF ~amp_power
                     THEN ReturnsAtOnce(t, "async_amp_power_off")
                     ELSE /\ task'[t].pc = "send"
                          /\ task'[t].sent = << [dev |-> "amp",
                                                 cmd |-> "power_off",
                                                 arg |-> -1] >>
         ]_vars
    /\ [](\A t \in Tasks :
             /\ DoneOp(t, "async_amp_power_on")
                => amp_power /\ Len(task[t].sent) <= 1
             /\ DoneOp(t, "async_amp_power_off")
                => ~amp_power /\ Len(task[t].sent) <= 1)

\* a powerOn that found the power on after a scene had turned it on, and
\* changed nothing
C29_Witness ==
    \E t \in Tasks :
        /\ DoneOp(t, "async_amp_power_on")
        /\ task[t].before.amp_power
        /\ task[t].before.active_scene = "Movie Night"
        /\ task[t].sent = << >>
        /\ task[t].notified = 0
        /\ active_scene = "Movie Night"

\* the one command a volumeUp or volumeDown call dispatches
VolumeCommand(name) == << [dev |-> "amp", cmd |-> name, arg |-> -1] >>

\* C30: every volumeUp call dispatches exactly one volume-up command and
\* every volumeDown call exactly one volume-down command, whatever the
\* tracked volume is.  A volumeUp made at volume 1.0 and a volumeDown made at
\* volume 0.0, outside scene execution, leave the volume at the bound,
\* notify once and leave active_scene absent.
C30_StepCommandAtBound ==
    \A t \in Tasks :
        /\ task[t].op = "async_volume_up"
           => /\ task[t].sent = VolumeCommand("volume_up")
              /\ task[t].ups = 1 /\ task[t].downs = 0
        /\ task[t].op = "async_volume_down"
           => /\ task[t].sent = VolumeCommand("volume_down")
              /\ task[t].ups = 0 /\ task[t].downs = 1
        /\ \/ DoneOp(t, "async_volume_up")
                 /\ task[t].before.volume = VOLUME_MAX
           \/ DoneOp(t, "async_volume_down")
                 /\ task[t].before.volume = VOLUME_MIN
           => /\ volume = task[t].before.volume
              /\ task[t].notified = 1
              /\ announced = << StateNow >>
              /\ ~task[t].before.in_scene_activation
              /\ active_scene = None

\* a volumeUp made at volume 1.0 while "Music" was the active scene: the
\* command was sent, the volume stayed and the scene label was cleared
C30_Witness ==
    \E t \in Tasks :
        /\ DoneOp(t, "async_volume_up")
        /\ task[t].before.volume = VOLUME_MAX
        /\ task[t].before.active_scene = "Music"
        /\ task[t].sent = VolumeCommand("volume_up")
        /\ volume = VOLUME_MAX
        /\ active_scene = None

\* the dispatch of the muteToggle call of t returns in this step
MuteToggleResumes(t) ==
    /\ task[t].op = "async_mute_toggle"
    /\ task[t].pc = "send"
    /\ task'[t].pc = "done"
    /\ task'[t].result = "ok"

\* C31: a muteToggle call dispatches one mute command and changes no field
\* before the dispatch returns; when it returns, muted is flipped and
\* amp_power, volume, source, screen_position, active_scene and the guard
\* stay as they are, whether an activation is in progress or not.  muted
\* changes in no other step, so two successful toggles in a row restore it.
C31_MuteFlipsOnly ==
    [][ /\ \A t \in Tasks :
            /\ task[t].pc = "idle" /\ task'[t].op = "async_mute_toggle"
               => /\ task'[t].pc = "send"
                  /\ task'[t].sent = << [dev |-> "amp", cmd |-> "mute",
                                         arg |-> -1] >>
                  /\ SixFieldsUnchanged
            /\ MuteToggleResumes(t)
               => /\ muted' = ~muted
                  /\ UNCHANGED << amp_power, volume, source, screen_position,
                                  active_scene, in_scene_activation >>
                  /\ task'[t].sent = task[t].sent
                  /\ task'[t].notified = 1
        /\ muted' # muted => \E t \in Tasks : MuteToggleResumes(t)
      ]_vars

\* a toggle was made and returned while an activation of "Movie Night" was
\* suspended after its amplifier step, with "Music" the active scene from
\* before
C31_Witness ==
    \E t, u \in Tasks :
        /\ DoneOp(t, "async_mute_toggle")
        /\ task[t].before.in_scene_activation
        /\ task[t].before.active_scene = "Music"
        /\ muted = ~task[t].before.muted
        /\ task[u].op = "async_activate_scene"
        /\ task[u].arg = "Movie Night"
        /\ task[u].pc \in {"send", "sleep_step", "sleep_amp", "light"}
        /\ in_scene_activation
        /\ active_scene = "Music"

\* the step is a call that runs _cancel_screen_timer: async_cleanup, a
\* screenStop with a stop command, or a screen move that is not a no-op
CallCancels(t) ==
    /\ task[t].pc = "idle"
    /\ \/ task'[t].op = "async_cleanup"
       \/ task'[t].op = "async_screen_stop" /\ has_screen_stop(Ctx(t))
       \/ task'[t].op = "async_screen_down"
             /\ screen_position # SCREEN_DOWN
       \/ task'[t].op = "async_screen_up" /\ screen_position # SCREEN_UP

\* C32: a call that cancels the screen timer leaves no timer with the event
\* loop and the handle empty, so the cancelled callback cannot run; with no
\* timer pending (also after an earlier cancel) the cancellation changes
\* nothing.  A timer leaves the event loop only by such a call or by firing;
\* the timer that fires is the one the handle holds, and its callback
\* leaves the handle empty.  async_cleanup changes none of the six fields,
\* sends nothing and notifies nobody: a position in travel stays as it is.
C32_CancelledTimerNeverFires ==
    [][ /\ \A t \in Tasks :
            /\ CallCancels(t)
               => /\ timers' = {}
                  /\ screen_timer' = 0
                  /\ SixFieldsUnchanged
            /\ task[t].pc = "idle" /\ task'[t].op = "async_cleanup"
               => /\ task'[t].pc = "done"
                  /\ task'[t].result = "ok"
                  /\ task'[t].sent = << >>
                  /\ task'[t].notified = 0
                  /\ UNCHANGED << pending_saves, heard, announced >>
                  /\ screen_timer = 0 => timers' = timers
        /\ timers \ timers' # {}
           => \/ \E t \in Tasks : CallCancels(t)
              \/ /\ task' = task
                 /\ \E tm \in timers :
                        /\ tm.id = screen_timer
                        /\ timers' = timers \ {tm}
                        /\ screen_position' = tm.kind
                 /\ screen_timer' = 0
        /\ screen_position' \notin Transitional
           /\ screen_position \in Transitional
           => timers \ timers' # {} /\ task' = task
      ]_vars

\* async_cleanup was called during a move down and cancelled its timer; the
\* call has returned and the position is still closing
C32_Witness ==
    \E t \in Tasks :
        /\ DoneOp(t, "async_cleanup")
        /\ task[t].before.screen_position = SCREEN_CLOSING
        /\ task[t].before.screen_timer # 0
        /\ task[t].before.timers # {}
        /\ timers = {}
        /\ screen_timer = 0
        /\ screen_position = SCREEN_CLOSING

\* the call of t is a screen move `op` made while the screen was already
\* moving that way (position `moving`); in this step it is called / resumes
RepeatedMoveCalled(t, op, moving) ==
    /\ task[t].pc = "idle"
    /\ task'[t].op = op
    /\ screen_position = moving

RepeatedMoveResumes(t, op, moving) ==
    /\ task[t].pc = "send"
    /\ task[t].op = op
    /\ task[t].before.screen_position = moving
    /\ task'[t].result = "ok"

\* the call cancelled the pending timer and dispatched the command `cmd`
CancelledAndSent(t, cmd) ==
    /\ task'[t].pc = "send"
    /\ task'[t].sent = << [dev |-> "screen", cmd |-> cmd, arg |-> -1] >>
    /\ timers' = {}
    /\ screen_timer' = 0
    /\ screen_position' = screen_position

\* the call scheduled a new timer for arrival at `kind`, the only one pending
ScheduledAnew(t, moving, kind) ==
    /\ timers = {}
    /\ screen_position' = moving
    /\ Cardinality(timers') = 1
    /\ \A tm \in timers' : tm.kind = kind /\ tm.id = screen_timer'
    /\ task'[t].notified = 1

\* C33: screenDown called while the position is closing is not a no-op: it
\* cancels the pending timer, dispatches the move command again and, when
\* the dispatch has returned, schedules a new arrival timer, which is then
\* the only one pending; the position stays closing meanwhile, so every
\* such call puts the arrival off.  Likewise screenUp while opening.
C33_RepeatedMoveRestartsTimer ==
    [][ \A t \in Tasks :
            /\ RepeatedMoveCalled(t, "async_screen_down", SCREEN_CLOSING)
               => CancelledAndSent(t, "screen_down")
            /\ RepeatedMoveResumes(t, "async_screen_down", SCREEN_CLOSING)
               => ScheduledAnew(t, SCREEN_CLOSING, SCREEN_DOWN)
            /\ RepeatedMoveCalled(t, "async_screen_up", SCREEN_OPENING)
               => CancelledAndSent(t, "screen_up")
            /\ RepeatedMoveResumes(t, "async_screen_up", SCREEN_OPENING)
               => ScheduledAnew(t, SCREEN_OPENING, SCREEN_UP)
      ]_vars

\* a screenDown made while the screen was closing with its timer pending has
\* returned: the screen is still closing and a timer is pending again
C33_Witness ==
    \E t \in Tasks :
        /\ DoneOp(t, "async_screen_down")
        /\ task[t].before.screen_position = SCREEN_CLOSING
        /\ task[t].before.timers # {}
        /\ task[t].sent # << >>
        /\ screen_position = SCREEN_CLOSING
        /\ Cardinality(timers) = 1

ScreenOps == {"async_screen_up", "async_screen_down", "async_screen_stop"}

\* a step of a screenUp, screenDown or screenStop call: the call itself or
\* its resumption after the dispatch
ScreenOpStep ==
    \E t \in Tasks :
        /\ task'[t] # task[t]
        /\ \/ task[t].pc = "idle" /\ task'[t].op \in ScreenOps
           \/ task[t].pc = "send" /\ task[t].op \in ScreenOps

\* C34: no step of a screenUp, screenDown or screenStop call and no arrival
\* callback changes amp_power, volume, muted, source or active_scene; when
\* such a call has ended these are as the call found them, so an active
\* scene survives a screen move made on its own.
C34_ScreenLeavesOtherFields ==
    /\ [][ ScreenOpStep \/ Fires(SCREEN_DOWN) \/ Fires(SCREEN_UP)
           => UNCHANGED << amp_power, volume, muted, source, active_scene >>
         ]_vars
    /\ [](\A t \in Tasks :
             task[t].op \in ScreenOps
             => /\ amp_power = task[t].before.amp_power
                /\ volume = task[t].before.volume
                /\ muted = task[t].before.muted
                /\ source = task[t].before.source
                /\ active_scene = task[t].before.active_scene)

\* with "Movie Night" active a screenUp was made and the screen has since
\* arrived up; the scene is still "Movie Night"
C34_Witness ==
    \E t \in Tasks :
        /\ DoneOp(t, "async_screen_up")
        /\ task[t].before.screen_position # SCREEN_UP
        /\ task[t].before.active_scene = "Movie Night"
        /\ task[t].sent # << >>
        /\ screen_position = SCREEN_UP
        /\ timers = {}
        /\ active_scene = "Movie Night"

\* C26: when a screenDown and a screenUp invocation overlap, still at most
\* one arrival timer is live.
C26_OneLiveTimer == Cardinality(timers) <= 1

====
